---- MODULE Spec2Model ----
(***************************************************************************)
(* Verification model of the Odoo dependency tracker: the extraction of    *)
(* modules, models and fields from a source tree (parsers/), the batch     *)
(* loader (graph/batch_operations.py) and the indexing orchestrator        *)
(* (graph/indexer.py) writing into a property-graph store.                 *)
(*                                                                         *)
(* The store is modelled as bags (multisets) of nodes and of edges, so     *)
(* that "no duplicate node" and "no duplicate edge" are properties of the  *)
(* MERGE-based writes and not of the representation.                       *)
(***************************************************************************)
EXTENDS Integers, Sequences, FiniteSets, Bags, TLC

\* Python None / Cypher null.
None == "None"

----------------------------------------------------------------------------
(* Schema vocabulary (graph/schema.py).                                    *)

NodeLabel == {"Module", "Model", "Field"}

RelationType ==
    {"DEPENDS_ON", "INHERITS_FROM", "DELEGATES_TO", "DEFINED_IN", "BELONGS_TO", "REFERENCES"}

\* The properties written by the SET clause of create_modules_batch.
ModuleSetProps ==
    {"display_name", "version", "category", "summary", "description", "author",
     "website", "license", "installable", "auto_install", "application",
     "file_path", "file_hash"}

\* The properties written by the SET clause of create_models_batch.
ModelSetProps ==
    {"description", "module", "file_path", "line_number", "class_name", "file_hash"}

\* The non-key properties written by the SET clause of create_fields_batch.
FieldSetProps ==
    {"field_type", "string", "required", "readonly", "help", "default", "compute",
     "store", "related", "depends", "inverse_name", "comodel_name", "domain",
     "selection", "states", "copy", "index", "translate", "digits", "sanitize",
     "strip_style"}

\* All non-key properties a node of each label can carry.
ModuleProperty == ModuleSetProps
ModelProperty == ModelSetProps
FieldProperty == FieldSetProps

----------------------------------------------------------------------------
(* The graph store.  A node is [key, props]; an edge is [from, to, field], *)
(* from and to being node keys and field being None except on             *)
(* DELEGATES_TO edges.  One bag per node label and per relationship type.  *)

EmptyStore ==
    [Module |-> EmptyBag, Model |-> EmptyBag, Field |-> EmptyBag,
     DEPENDS_ON |-> EmptyBag, DEFINED_IN |-> EmptyBag, INHERITS_FROM |-> EmptyBag,
     DELEGATES_TO |-> EmptyBag, BELONGS_TO |-> EmptyBag, REFERENCES |-> EmptyBag]

ZeroCounters == [nodes_created |-> 0, properties_set |-> 0, relationships_created |-> 0]

\* Nodes of a bag carrying the key k (MATCH, and the match half of MERGE).
Matching(bag, k) == {n \in BagToSet(bag) : n.key = k}

\* Number of node instances carrying the key k.
NodeCount(bag, k) == BagCardinality([n \in Matching(bag, k) |-> bag[n]])

\* k copies of one element, as a bag.
Copies(e, k) == IF k = 0 THEN EmptyBag ELSE [x \in {e} |-> k]

\* The properties of the node with the key k; every property is null when
\* there is no such node.
Properties(bag, k, allProps) ==
    IF Matching(bag, k) = {} THEN [p \in allProps |-> None]
    ELSE (CHOOSE n \in Matching(bag, k) : TRUE).props

\* SET n.p = rec.p for p in setProps on the count nodes with the key k and the
\* properties old (on the node just created when count = 0): every property
\* of setProps is overwritten (a null value removes the property), a property
\* outside setProps keeps its old value.
SetProperties(bag, k, rec, setProps, keyProps, old, count) ==
    [bag |-> [n \in BagToSet(bag) \ Matching(bag, k) |-> bag[n]]
                (+) Copies([key |-> k,
                            props |-> [p \in DOMAIN old |->
                                          IF p \in setProps THEN rec[p] ELSE old[p]]],
                           IF count = 0 THEN 1 ELSE count),
     nodes_created |-> IF count = 0 THEN 1 ELSE 0,
     properties_set |-> (IF count = 0 THEN keyProps ELSE 0)
                        + (IF count = 0 THEN 1 ELSE count)
                          * Cardinality({p \in setProps : rec[p] # None \/ old[p] # None})]

\* SetProperties on a fresh node whatever the store holds.
MergeNodeCreate(bag, k, rec, setProps, allProps, keyProps) ==
    LET r == SetProperties(EmptyBag, k, rec, setProps, keyProps,
                           [p \in allProps |-> None], 0)
    IN [r EXCEPT !.bag = bag (+) @]

\* MergeNode with ON CREATE SET: the properties of a node found are kept.
MergeNodeOnCreate(bag, k, rec, setProps, allProps, keyProps) ==
    IF NodeCount(bag, k) = 0
    THEN SetProperties(bag, k, rec, setProps, keyProps, [p \in allProps |-> None], 0)
    ELSE [bag |-> bag, nodes_created |-> 0, properties_set |-> 0]

\* MERGE (n:Label {key}) SET ...: the node with the key is found or created,
\* then its properties are set.  keyProps is the number of properties of the
\* MERGE pattern, written when the node is created.
MergeNode(bag, k, rec, setProps, allProps, keyProps) ==
    SetProperties(bag, k, rec, setProps, keyProps,
                  Properties(bag, k, allProps), NodeCount(bag, k))

\* An edge; field is the property of the MERGE pattern (None when the pattern
\* has none).
Edge(from, to, field) == [from |-> from, to |-> to, field |-> field]

\* MergeRel with CREATE in place of MERGE: the edge is added on every row.
MergeRelCreate(rels, fromBag, fromKey, toBag, toKey, field) ==
    IF NodeCount(fromBag, fromKey) * NodeCount(toBag, toKey) = 0
    THEN [bag |-> rels, relationships_created |-> 0]
    ELSE [bag |-> rels (+) Copies(Edge(fromKey, toKey, field), 1),
          relationships_created |-> 1]

\* MergeRel with the field left out of the MERGE pattern: an edge between the
\* pair, whatever its field, is taken for the edge.
MergeRelAnyField(rels, fromBag, fromKey, toBag, toKey, field) ==
    IF \/ NodeCount(fromBag, fromKey) * NodeCount(toBag, toKey) = 0
       \/ \E e \in BagToSet(rels) : e.from = fromKey /\ e.to = toKey
    THEN [bag |-> rels, relationships_created |-> 0]
    ELSE [bag |-> rels (+) Copies(Edge(fromKey, toKey, field), 1),
          relationships_created |-> 1]

\* MergeRel without the MATCH clauses: the edge is merged whether or not the
\* store holds its endpoints.
MergeRelUnmatched(rels, fromBag, fromKey, toBag, toKey, field) ==
    IF BagIn(Edge(fromKey, toKey, field), rels)
    THEN [bag |-> rels, relationships_created |-> 0]
    ELSE [bag |-> rels (+) Copies(Edge(fromKey, toKey, field), 1),
          relationships_created |-> 1]

\* MATCH (from) MATCH (to) MERGE (from)-[r {field}]->(to): one row per pair of
\* matching endpoints; the edge is created only when no equal edge exists.
MergeRel(rels, fromBag, fromKey, toBag, toKey, field) ==
    IF \/ NodeCount(fromBag, fromKey) * NodeCount(toBag, toKey) = 0
       \/ BagIn(Edge(fromKey, toKey, field), rels)
    THEN [bag |-> rels, relationships_created |-> 0]
    ELSE [bag |-> rels (+) Copies(Edge(fromKey, toKey, field), 1),
          relationships_created |-> 1]

\* The state of one write transaction: the store as written so far, the
\* summary counters, and whether a statement raised.
Tx(store) == [store |-> store, c |-> ZeroCounters, raised |-> FALSE]

NodeWritten(tx, label, r) ==
    [tx EXCEPT !.store[label] = r.bag,
               !.c.nodes_created = @ + r.nodes_created,
               !.c.properties_set = @ + r.properties_set]

RelWritten(tx, type, r) ==
    [tx EXCEPT !.store[type] = r.bag,
               !.c.relationships_created = @ + r.relationships_created]

\* Key of a Field node: (name, model_name).
FieldKey(name, model_name) == <<name, model_name>>

(* One row of each UNWIND $batch query of graph/batch_operations.py.        *)

ModuleRow(tx, module) ==
    NodeWritten(tx, "Module",
        MergeNode(tx.store.Module, module.name, module, ModuleSetProps, ModuleProperty, 1))

DependencyRow(tx, dep) ==
    RelWritten(tx, "DEPENDS_ON",
        MergeRel(tx.store.DEPENDS_ON, tx.store.Module, dep.from, tx.store.Module, dep.to, None))

ModelRow(tx, model) ==
    NodeWritten(tx, "Model",
        MergeNode(tx.store.Model, model.name, model, ModelSetProps, ModelProperty, 1))

ModelModuleRow(tx, rel) ==
    RelWritten(tx, "DEFINED_IN",
        MergeRel(tx.store.DEFINED_IN, tx.store.Model, rel.model, tx.store.Module, rel.module, None))

\* InheritanceRow with the edge drawn from the parent to the child.
InheritanceRowReversed(tx, inh) ==
    RelWritten(tx, "INHERITS_FROM",
        MergeRel(tx.store.INHERITS_FROM, tx.store.Model, inh.to, tx.store.Model, inh.from, None))

InheritanceRow(tx, inh) ==
    RelWritten(tx, "INHERITS_FROM",
        MergeRel(tx.store.INHERITS_FROM, tx.store.Model, inh.from, tx.store.Model, inh.to, None))

\* MERGE on a relationship property whose value is null raises; the row gets
\* there only when both MATCH clauses found their node.
DelegationRow(tx, del) ==
    IF /\ del.field = None
       /\ NodeCount(tx.store.Model, del.from) * NodeCount(tx.store.Model, del.to) > 0
    THEN [tx EXCEPT !.raised = TRUE]
    ELSE RelWritten(tx, "DELEGATES_TO",
            MergeRel(tx.store.DELEGATES_TO, tx.store.Model, del.from,
                     tx.store.Model, del.to, del.field))

FieldRow(tx, field) ==
    NodeWritten(tx, "Field",
        MergeNode(tx.store.Field, FieldKey(field.name, field.model_name), field,
                  FieldSetProps, FieldProperty, 2))

FieldModelRow(tx, rel) ==
    RelWritten(tx, "BELONGS_TO",
        MergeRel(tx.store.BELONGS_TO, tx.store.Field, FieldKey(rel.field_name, rel.model_name),
                 tx.store.Model, rel.model_name, None))

\* FieldReferenceRow with the edge ending at the model that owns the field.
FieldReferenceRowToOwner(tx, ref) ==
    RelWritten(tx, "REFERENCES",
        MergeRel(tx.store.REFERENCES, tx.store.Field, FieldKey(ref.field_name, ref.model_name),
                 tx.store.Model, ref.model_name, None))

FieldReferenceRow(tx, ref) ==
    RelWritten(tx, "REFERENCES",
        MergeRel(tx.store.REFERENCES, tx.store.Field, FieldKey(ref.field_name, ref.model_name),
                 tx.store.Model, ref.comodel, None))

----------------------------------------------------------------------------
(* The batch loader (graph/batch_operations.py).                           *)

\* UNWIND $batch AS row: the rows are applied in order inside one transaction.
\* The statement of the query that writes the label or relationship type
\* `query`, applied to one row of its batch.
Row(query, tx, row) ==
    CASE query = "Module" -> ModuleRow(tx, row)
      [] query = "DEPENDS_ON" -> DependencyRow(tx, row)
      [] query = "Model" -> ModelRow(tx, row)
      [] query = "DEFINED_IN" -> ModelModuleRow(tx, row)
      [] query = "INHERITS_FROM" -> InheritanceRow(tx, row)
      [] query = "DELEGATES_TO" -> DelegationRow(tx, row)
      [] query = "Field" -> FieldRow(tx, row)
      [] query = "BELONGS_TO" -> FieldModelRow(tx, row)
      [] query = "REFERENCES" -> FieldReferenceRow(tx, row)

RECURSIVE Unwind(_, _, _)
Unwind(query, tx, batch) ==
    IF batch = <<>> THEN tx ELSE Unwind(query, Row(query, tx, Head(batch)), Tail(batch))

\* The end of the write transaction: fails is the environment's part (the
\* store or the network refuses the write); a raising statement fails the
\* write too.  A failed transaction is rolled back: the store is left as it
\* was.
Commit(store, fails, tx) ==
    IF fails \/ tx.raised
    THEN [store |-> store, c |-> ZeroCounters, raised |-> TRUE]
    ELSE tx

\* connection.execute_batch(query, batch): the summary counters of the write,
\* or an exception.
execute_batch(query, store, batch, fails) ==
    Commit(store, fails, Unwind(query, Tx(store), batch))

\* What an operation returns on an empty batch, without a store call.
NothingToDo(store) == [store |-> store, created |-> 0, errors |-> 0, raised |-> FALSE]

\* Caught with a failed batch counted as one error.
CaughtAsOne(store, batch, result, created) ==
    IF result.raised
    THEN [store |-> store, created |-> 0, errors |-> 1, raised |-> TRUE]
    ELSE [store |-> result.store, created |-> created, errors |-> 0, raised |-> FALSE]

\* The try/except of every operation: a raised write is logged and the whole
\* batch counted as errors; otherwise created is what the operation computes
\* from the counters.
Caught(store, batch, result, created) ==
    IF result.raised
    THEN [store |-> store, created |-> 0, errors |-> Len(batch), raised |-> TRUE]
    ELSE [store |-> result.store, created |-> created, errors |-> 0, raised |-> FALSE]

\* created of create_modules_batch and of create_models_batch:
\* nodes_created + properties_set // n.
NodesAndProperties(store, batch, result, n) ==
    Caught(store, batch, result,
           result.c.nodes_created + (result.c.properties_set \div n))

\* created of create_fields_batch: nodes_created.
NodesCreated(store, batch, result) ==
    Caught(store, batch, result, result.c.nodes_created)

\* created of the relationship operations: relationships_created.
RelationshipsCreated(store, batch, result) ==
    Caught(store, batch, result, result.c.relationships_created)

\* The body shared by the relationship operations.
RelationshipBatch(query, store, batch, fails) ==
    IF batch = <<>> THEN NothingToDo(store)
    ELSE RelationshipsCreated(store, batch, execute_batch(query, store, batch, fails))

create_modules_batch(store, modules, fails) ==
    IF modules = <<>> THEN NothingToDo(store)
    ELSE NodesAndProperties(store, modules,
                            execute_batch("Module", store, modules, fails), 13)

create_module_dependencies_batch(store, dependencies, fails) ==
    RelationshipBatch("DEPENDS_ON", store, dependencies, fails)

create_models_batch(store, models, fails) ==
    IF models = <<>> THEN NothingToDo(store)
    ELSE NodesAndProperties(store, models,
                            execute_batch("Model", store, models, fails), 6)

create_model_module_relationships_batch(store, relationships, fails) ==
    RelationshipBatch("DEFINED_IN", store, relationships, fails)

create_model_inheritance_batch(store, inheritances, fails) ==
    RelationshipBatch("INHERITS_FROM", store, inheritances, fails)

create_model_delegation_batch(store, delegations, fails) ==
    RelationshipBatch("DELEGATES_TO", store, delegations, fails)

\* _serialize_for_neo4j: None, booleans, numbers and strings pass unchanged
\* (the property values of this model are None and opaque scalars).
_serialize_for_neo4j(value) ==
    IF value = None THEN None ELSE value

\* _prepare_fields_for_neo4j: every value of every field dictionary serialized.
_prepare_fields_for_neo4j(fields) ==
    [i \in 1..Len(fields) |->
        [key \in DOMAIN fields[i] |-> _serialize_for_neo4j(fields[i][key])]]

create_fields_batch(store, fields, fails) ==
    IF fields = <<>> THEN NothingToDo(store)
    ELSE NodesCreated(store, fields,
                      execute_batch("Field", store, _prepare_fields_for_neo4j(fields), fails))

create_field_model_relationships_batch(store, relationships, fails) ==
    RelationshipBatch("BELONGS_TO", store, relationships, fails)

create_field_references_batch(store, references, fails) ==
    RelationshipBatch("REFERENCES", store, references, fails)

\* LoadOrder with the field memberships loaded before the fields.
LoadOrderMembershipsFirst ==
    <<"modules", "module_dependencies", "models", "model_module_rels",
      "model_inheritance", "model_delegation", "field_model_rels", "fields",
      "field_references">>

\* LoadOrder with the module dependencies written before the modules.
LoadOrderDependenciesFirst ==
    <<"module_dependencies", "modules", "models", "model_module_rels",
      "model_inheritance", "model_delegation", "fields", "field_model_rels",
      "field_references">>

\* The nine collections of the extracted data, in the order _load_all_data
\* hands them to process_in_batches.
LoadOrder ==
    <<"modules", "module_dependencies", "models", "model_module_rels",
      "model_inheritance", "model_delegation", "fields", "field_model_rels",
      "field_references">>

\* The operation _load_all_data passes to process_in_batches for a collection.
operation_func(collection, store, batch, fails) ==
    CASE collection = "modules" -> create_modules_batch(store, batch, fails)
      [] collection = "module_dependencies" -> create_module_dependencies_batch(store, batch, fails)
      [] collection = "models" -> create_models_batch(store, batch, fails)
      [] collection = "model_module_rels" -> create_model_module_relationships_batch(store, batch, fails)
      [] collection = "model_inheritance" -> create_model_inheritance_batch(store, batch, fails)
      [] collection = "model_delegation" -> create_model_delegation_batch(store, batch, fails)
      [] collection = "fields" -> create_fields_batch(store, batch, fails)
      [] collection = "field_model_rels" -> create_field_model_relationships_batch(store, batch, fails)
      [] collection = "field_references" -> create_field_references_batch(store, batch, fails)

\* items[i:i + batch_size], i counted from 0.
Slice(items, i, size) ==
    SubSeq(items, i + 1, IF i + size < Len(items) THEN i + size ELSE Len(items))

----------------------------------------------------------------------------
(* The source tree.                                                        *)
(*                                                                         *)
(* A module directory is [path, name, manifest_file, manifest_path,        *)
(* manifest_hash, parses, manifest, files]: manifest_file is the name of   *)
(* the manifest file the directory holds, manifest_path the path           *)
(* <path>/__manifest__.py, parses tells whether the manifest is a valid    *)
(* dictionary literal, manifest is that dictionary and files are the model *)
(* files.  A model file is [path, hash, classes]; a class is the part of a *)
(* class statement the parser reads: [class_name, line_number, name,       *)
(* description, inherit, inherits, fields], name being the value of _name  *)
(* (None when the class assigns none), inherit the strings of _inherit,    *)
(* inherits the items of _inherits as [parent, field] and fields the field *)
(* assignments as dictionaries.  Property values are opaque strings.       *)

MANIFEST_FILES == <<"__manifest__.py", "__openerp__.py">>

\* Elements of a sequence.
Range(seq) == {seq[i] : i \in 1..Len(seq)}

\* dict.get(key, default) on a record.
Get(dict, key, default) == IF key \in DOMAIN dict THEN dict[key] ELSE default

\* compute_file_hash of the manifest and of a model file: the digest of the
\* content, which the tree records per file.
compute_file_hash(file) == file.hash

\* parse_manifest: the manifest dictionary, as a sequence of zero or one
\* record (Optional).  The first existing name of MANIFEST_FILES is read; a
\* syntax error yields nothing, and so does a file that cannot be read.
parse_manifest(dir) ==
    IF ~ dir.readable \/ ~ dir.parses THEN <<>>
    ELSE <<dir.manifest @@ [module_path |-> dir.path, module_name |-> dir.name]>>

\* get_manifest_dependencies: the string entries of the depends list.
get_manifest_dependencies(manifest_data) == Get(manifest_data, "depends", <<>>)

\* extract_model_from_class without the test of _name against _inherit.
extract_model_from_class_NamedOnly(cls, file_path, module_name) ==
    IF cls.name = None \/ cls.name = ""
    THEN <<>>
    ELSE <<[class_name |-> cls.class_name,
            name |-> cls.name,
            description |-> cls.description,
            inherit |-> cls.inherit,
            inherits |-> cls.inherits,
            fields |-> cls.fields,
            file_path |-> file_path,
            module_name |-> module_name,
            line_number |-> cls.line_number]>>

\* extract_model_from_class: the model record of a class, as a sequence of
\* zero or one record (Optional).  A class without _name, and a class whose
\* _name is among its _inherit entries, is an extension and yields nothing.
extract_model_from_class(cls, file_path, module_name) ==
    IF cls.name = None \/ cls.name = ""
    THEN <<>>
    ELSE IF cls.name \in Range(cls.inherit)
    THEN <<>>
    ELSE <<[class_name |-> cls.class_name,
            name |-> cls.name,
            description |-> cls.description,
            inherit |-> cls.inherit,
            inherits |-> cls.inherits,
            fields |-> cls.fields,
            file_path |-> file_path,
            module_name |-> module_name,
            line_number |-> cls.line_number]>>

\* parse_model_file: the model records of the classes of a file, in order.
RECURSIVE ParseClasses(_, _, _)
ParseClasses(classes, file_path, module_name) ==
    IF classes = <<>> THEN <<>>
    ELSE extract_model_from_class(Head(classes), file_path, module_name)
         \o ParseClasses(Tail(classes), file_path, module_name)

parse_model_file(file, module_name) == ParseClasses(file.classes, file.path, module_name)

----------------------------------------------------------------------------
(* Extraction (graph/indexer.py, _extract_module_data).                    *)

\* The empty result set of _extract_all_data and of _extract_module_data.
EmptyData == [c \in Range(LoadOrder) |-> <<>>]

\* The Field node record built from a parsed field.
FieldData(field, model_name) ==
    [p \in FieldSetProps \cup {"name", "model_name"} |->
        CASE p = "name" -> field.name
          [] p = "model_name" -> model_name
          [] p = "field_type" -> Get(field, "type", "")
          [] OTHER -> Get(field, p, None)]

\* The records one parsed field adds to the module's data.
AddField(data, field, model_name) ==
    [data EXCEPT
        !["fields"] = Append(@, FieldData(field, model_name)),
        !["field_model_rels"] = Append(@, [field_name |-> field.name, model_name |-> model_name]),
        !["field_references"] =
            IF Get(field, "comodel_name", None) # None
            THEN Append(@, [field_name |-> field.name, model_name |-> model_name,
                            comodel |-> field.comodel_name])
            ELSE @]

RECURSIVE AddFields(_, _, _)
AddFields(data, fields, model_name) ==
    IF fields = <<>> THEN data
    ELSE AddFields(AddField(data, Head(fields), model_name), Tail(fields), model_name)

\* The INHERITS_FROM records of a model: one per _inherit entry.
InheritanceRecords(model) ==
    [i \in 1..Len(model.inherit) |-> [from |-> model.name, to |-> model.inherit[i]]]

\* The DELEGATES_TO records of a model: one per _inherits item.
DelegationRecords(model) ==
    [i \in 1..Len(model.inherits) |->
        [from |-> model.name, to |-> model.inherits[i].parent, field |-> model.inherits[i].field]]

\* The Model node record built from a parsed model.
ModelData(model, technical_name, model_file) ==
    [name |-> model.name,
     description |-> model.description,
     module |-> technical_name,
     file_path |-> model_file.path,
     line_number |-> model.line_number,
     class_name |-> model.class_name,
     file_hash |-> compute_file_hash(model_file)]

\* The records one parsed model adds to the module's data.
AddModel(data, model, technical_name, model_file) ==
    LET withModel ==
            [data EXCEPT
                !["models"] = Append(@, ModelData(model, technical_name, model_file)),
                !["model_module_rels"] = Append(@, [model |-> model.name, module |-> technical_name]),
                !["model_inheritance"] = @ \o InheritanceRecords(model),
                !["model_delegation"] = @ \o DelegationRecords(model)]
    IN AddFields(withModel, model.fields, model.name)

RECURSIVE AddModels(_, _, _, _)
AddModels(data, models, technical_name, model_file) ==
    IF models = <<>> THEN data
    ELSE AddModels(AddModel(data, Head(models), technical_name, model_file),
                   Tail(models), technical_name, model_file)

RECURSIVE AddModelFiles(_, _, _)
AddModelFiles(data, files, technical_name) ==
    IF files = <<>> THEN data
    ELSE AddModelFiles(
            AddModels(data, parse_model_file(Head(files), technical_name),
                      technical_name, Head(files)),
            Tail(files), technical_name)

\* The Module node record built from the manifest.
ModuleData(dir, manifest) ==
    LET technical_name == Get(manifest, "module_name", dir.name)
    IN [name |-> technical_name,
        display_name |-> Get(manifest, "name", technical_name),
        version |-> Get(manifest, "version", ""),
        category |-> Get(manifest, "category", ""),
        summary |-> Get(manifest, "summary", ""),
        description |-> Get(manifest, "description", ""),
        author |-> Get(manifest, "author", ""),
        website |-> Get(manifest, "website", ""),
        license |-> Get(manifest, "license", ""),
        installable |-> Get(manifest, "installable", "True"),
        auto_install |-> Get(manifest, "auto_install", "False"),
        application |-> Get(manifest, "application", "False"),
        file_path |-> dir.manifest_path,
        file_hash |-> dir.manifest_hash]

\* The DEPENDS_ON records of a module: one per manifest dependency.
DependencyRecords(technical_name, dependencies) ==
    [i \in 1..Len(dependencies) |-> [from |-> technical_name, to |-> dependencies[i]]]

\* _extract_module_data: the data of one module directory as a sequence of
\* zero or one result (Optional), with the numbers of models and of fields
\* it counted.  Nothing is returned when <path>/__manifest__.py does not
\* exist, when its hash is the recorded one, or when the manifest does not
\* parse.
_extract_module_data(dir, existing_hashes) ==
    IF dir.manifest_file # "__manifest__.py" THEN <<>>
    ELSE IF Get(existing_hashes, dir.manifest_path, None) = dir.manifest_hash THEN <<>>
    ELSE IF parse_manifest(dir) = <<>> THEN <<>>
    ELSE LET manifest == parse_manifest(dir)[1]
             module == ModuleData(dir, manifest)
             changed == SelectSeq(dir.files,
                            LAMBDA f : Get(existing_hashes, f.path, None) # compute_file_hash(f))
             base == [EmptyData EXCEPT
                        !["modules"] = <<module>>,
                        !["module_dependencies"] =
                            DependencyRecords(module.name, get_manifest_dependencies(manifest))]
         IN <<AddModelFiles(base, changed, module.name)>>

\* _extract_module_data raises: compute_file_hash of an existing manifest
\* that cannot be read raises PermissionError, which nothing in
\* _extract_module_data catches.
Raises(dir) == dir.manifest_file = "__manifest__.py" /\ ~ dir.readable

\* _get_existing_file_hashes: the recorded hashes (none are ever recorded).
_get_existing_file_hashes == [p \in {} |-> None]

----------------------------------------------------------------------------
(* The query layer (graph/queries.py), evaluated on a store.               *)

\* get_module_dependencies: the names of the modules the DEPENDS_ON edges of
\* the module lead to.
get_module_dependencies(st, module_name) ==
    {e.to : e \in {x \in BagToSet(st.DEPENDS_ON) : x.from = module_name}}

\* The paths that extend one of the given paths by one DEPENDS_ON edge the
\* path has not been over.
Extensions(st, paths) ==
    UNION {{Append(p, e.to) :
                e \in {x \in BagToSet(st.DEPENDS_ON) :
                          /\ x.from = p[Len(p)]
                          /\ \A i \in 1..(Len(p) - 1) : ~ (p[i] = x.from /\ p[i + 1] = x.to)}} :
           p \in paths}

\* The paths of the fewest edges, depth at least and max_depth at most, that
\* extend one of the given paths and end at the module to.
RECURSIVE ShortestPaths(_, _, _, _, _)
ShortestPaths(st, paths, to, depth, max_depth) ==
    IF depth > max_depth \/ paths = {} THEN {}
    ELSE IF {p \in Extensions(st, paths) : p[Len(p)] = to} # {}
    THEN {p \in Extensions(st, paths) : p[Len(p)] = to}
    ELSE ShortestPaths(st, Extensions(st, paths), to, depth + 1, max_depth)

\* get_dependency_chain: the module names along a shortest DEPENDS_ON path,
\* any of them when there are several (none: the empty set).
get_dependency_chain(st, from_module, to_module, max_depth) ==
    IF NodeCount(st.Module, from_module) = 0 THEN {}
    ELSE ShortestPaths(st, {<<from_module>>}, to_module, 1, max_depth)

----------------------------------------------------------------------------
(* Bounds and the source trees the model is run on.                        *)

\* index_all calls made on one OdooIndexer.
MaxRuns == 2

\* Store writes the environment makes fail.
MaxFailures == 1

\* Largest batch size the indexer is constructed with.
MaxBatchSize == 2

ModelNames == {"res.partner", "sale.order"}

\* The module directories of the trees: the directory name (the technical
\* name of the module), the manifest's version, and the paths and content
\* digests of the files.
Files ==
    [base |-> [dir |-> "addons/base", name |-> "base", version |-> "1.0",
               manifest |-> "addons/base/__manifest__.py",
               manifest_hash |-> "sha256:addons/base/manifest",
               models |-> "addons/base/models/models.py",
               models_hash |-> "sha256:addons/base/models"],
     sale |-> [dir |-> "addons/sale", name |-> "sale", version |-> "1.0",
               manifest |-> "addons/sale/__manifest__.py",
               manifest_hash |-> "sha256:addons/sale/manifest",
               models |-> "addons/sale/models/models.py",
               models_hash |-> "sha256:addons/sale/models"],
     crm |-> [dir |-> "addons/crm", name |-> "crm", version |-> "1.0",
               manifest |-> "addons/crm/__manifest__.py",
               manifest_hash |-> "sha256:addons/crm/manifest",
               models |-> "addons/crm/models/models.py",
               models_hash |-> "sha256:addons/crm/models"],
     extra_base |->
              [dir |-> "extra/base", name |-> "base", version |-> "2.0",
               manifest |-> "extra/base/__manifest__.py",
               manifest_hash |-> "sha256:extra/base/manifest",
               models |-> "extra/base/models/models.py",
               models_hash |-> "sha256:extra/base/models"]]

\* The module directory d holding one model file with the given classes (no
\* model file when there are none).
Dir(d, manifest_file, parses, depends, classes) ==
    [path |-> Files[d].dir,
     name |-> Files[d].name,
     manifest_file |-> manifest_file,
     manifest_path |-> Files[d].manifest,
     manifest_hash |-> Files[d].manifest_hash,
     readable |-> TRUE,
     parses |-> parses,
     manifest |-> [name |-> Files[d].name, version |-> Files[d].version,
                   depends |-> depends],
     files |-> IF classes = <<>> THEN <<>>
               ELSE <<[path |-> Files[d].models, hash |-> Files[d].models_hash,
                       classes |-> classes]>>]

\* The module directory whose manifest exists and cannot be opened for
\* reading.
Unreadable(dir) == [dir EXCEPT !.readable = FALSE]

Class(name, inherit, inherits, fields) ==
    [class_name |-> "C", line_number |-> "1", name |-> name, description |-> None,
     inherit |-> inherit, inherits |-> inherits, fields |-> fields]

\* name = fields.Char("Name")
NameField ==
    [name |-> "name", type |-> "Char", string |-> "Name", comodel_name |-> None]

\* name = fields.Char()
UnlabelledNameField ==
    [name |-> "name", type |-> "Char", string |-> None, comodel_name |-> None]

\* email = fields.Char("Email")
EmailField ==
    [name |-> "email", type |-> "Char", string |-> "Email", comodel_name |-> None]

\* partner_id = fields.Many2one(comodel_name="res.partner")
PartnerField ==
    [name |-> "partner_id", type |-> "Many2one", string |-> None,
     comodel_name |-> "res.partner"]

\* A class that defines res.partner and nothing else.
PartnerClass == Class("res.partner", <<>>, <<>>, <<>>)

\* A class that defines res.partner with the field name.
NamedPartnerClass == Class("res.partner", <<>>, <<>>, <<NameField>>)

\* Classes that differ in _name and _inherit.
InheritanceClasses ==
    {Class(n, i, <<>>, <<>>) :
        n \in ModelNames \cup {None},
        i \in {<<>>, <<"res.partner">>, <<"res.partner", "sale.order">>}}

\* sale.order with _inherits = {"res.partner": f}; f = None stands for a key
\* whose value is not a string the store accepts.
DelegationClass(f) ==
    Class("sale.order", <<>>, <<[parent |-> "res.partner", field |-> f]>>, <<>>)

\* Classes that differ in _name and in their fields.
FieldClasses ==
    {Class(n, <<>>, <<>>, f) :
        n \in ModelNames,
        f \in {<<NameField>>, <<UnlabelledNameField>>, <<PartnerField>>,
               <<NameField, PartnerField>>}}

\* A class with _name, _inherit, _inherits and fields at once, and the class
\* that defines its parent.
FullClasses ==
    {Class("sale.order", <<"res.partner">>,
           <<[parent |-> "res.partner", field |-> "partner_id"]>>,
           <<NameField, PartnerField>>),
     Class("res.partner", <<>>, <<>>, <<NameField>>)}

\* The model file of a module: no class or one class of the family.
ClassLists(family) == {<<>>} \cup {<<c>> : c \in family}

\* Module base, then module sale which depends on base, with the given
\* choices for the classes of each.
TwoModules(baseClasses, saleClasses) ==
    {<<Dir("base", "__manifest__.py", TRUE, <<>>, c1),
       Dir("sale", "__manifest__.py", TRUE, <<"base">>, c2)>> :
        c1 \in baseClasses, c2 \in saleClasses}

\* Two directories with the same name under different parents: two module
\* records with the same technical name.
SameNameModules ==
    {<<Dir("base", "__manifest__.py", TRUE, <<>>, c1),
       Dir("extra_base", "__manifest__.py", TRUE, <<"base">>, c2)>> :
        c1 \in ClassLists({NamedPartnerClass}), c2 \in ClassLists({NamedPartnerClass})}

InheritanceTrees ==
    TwoModules(ClassLists({PartnerClass}), ClassLists(InheritanceClasses))

DelegationTrees ==
    TwoModules({<<>>, <<PartnerClass>>, <<PartnerClass, DelegationClass("partner_id")>>},
               ClassLists({DelegationClass(f) : f \in {"partner_id", "owner_id", None}}))

FieldTrees ==
    TwoModules(ClassLists({Class("res.partner", <<>>, <<>>, <<NameField, PartnerField>>)}),
               ClassLists(FieldClasses))

\* Trees in which the manifest of one module or of both cannot be read.
UnreadableTrees ==
    {<<IF u1 THEN Unreadable(t[1]) ELSE t[1], IF u2 THEN Unreadable(t[2]) ELSE t[2]>> :
        t \in TwoModules({<<NamedPartnerClass>>}, {<<DelegationClass("partner_id")>>}),
        u1 \in BOOLEAN, u2 \in BOOLEAN}

\* Trees in which the manifest of one module or of both has a syntax error.
BrokenTrees ==
    {<<Dir("base", "__manifest__.py", p1, <<>>, <<NamedPartnerClass>>),
       Dir("sale", "__manifest__.py", p2, <<"base">>, <<DelegationClass("partner_id")>>)>> :
        p1 \in BOOLEAN, p2 \in BOOLEAN}

\* Module base with the model res.partner and its two fields, and module sale,
\* which depends on base, with the model sale.order and its Many2one field to
\* res.partner.
CensusTree ==
    <<Dir("base", "__manifest__.py", TRUE, <<>>,
          <<Class("res.partner", <<>>, <<>>, <<NameField, EmailField>>)>>),
      Dir("sale", "__manifest__.py", TRUE, <<"base">>,
          <<Class("sale.order", <<>>, <<>>, <<PartnerField>>)>>)>>

\* The modules crm, sale and base, crm depending on sale and sale on base, in
\* every order find_modules can yield them.
ChainTrees ==
    LET A == Dir("crm", "__manifest__.py", TRUE, <<"sale">>, <<>>)
        B == Dir("sale", "__manifest__.py", TRUE, <<"base">>, <<>>)
        C == Dir("base", "__manifest__.py", TRUE, <<>>, <<>>)
    IN {<<A, B, C>>, <<A, C, B>>, <<B, A, C>>, <<B, C, A>>, <<C, A, B>>, <<C, B, A>>}

\* Trees in which the manifest of one module or of both is named
\* __openerp__.py.
OldStyleTrees ==
    {<<Dir("base", f1, TRUE, <<>>, <<>>), Dir("sale", f2, TRUE, <<"base">>, <<>>)>> :
        f1 \in Range(MANIFEST_FILES), f2 \in Range(MANIFEST_FILES)}

Trees ==
    InheritanceTrees \cup DelegationTrees \cup FieldTrees
        \cup TwoModules(ClassLists(FullClasses), ClassLists(FullClasses))
        \cup SameNameModules
        \cup UnreadableTrees
        \cup BrokenTrees
        \cup {CensusTree}
        \cup ChainTrees
        \cup OldStyleTrees

----------------------------------------------------------------------------
(* The indexer (graph/indexer.py): one OdooIndexer on one connection.      *)

VARIABLES
    tree,            \* the module directories find_modules yields, in order
    batch_size,      \* self.batch_size
    store,           \* the graph store behind the connection
    pc,              \* "idle", "extract", "load" or "census"
    clear_existing,  \* argument of the running index_all
    incremental,     \* argument of the running index_all
    existing_hashes, \* _extract_all_data: the recorded file hashes
    next_module,     \* _extract_all_data: index of the next module path
    data,            \* the extracted collections
    collection,      \* _load_all_data: index in LoadOrder of the collection being loaded
    offset,          \* process_in_batches: i, the start of the next chunk
    totals,          \* process_in_batches: total_created, total_errors
    stats,           \* self.stats
    calls,           \* history: the store calls of the running index_all
    results,         \* history: what process_in_batches returned, per collection
    written,         \* history: the record last written per node key
    failures,        \* history: store writes that failed so far
    history,         \* history: the outcome of each index_all call
    class_node,      \* ModelIndexer: the class statement handed to _extract_model
    model,           \* ModelIndexer: the ModelMetadata it returned (none yet: <<>>)
    max_retries,     \* Neo4jConnection: self.max_retries
    retry_delay,     \* Neo4jConnection: self.retry_delay
    connect_pc,      \* connect: "attempt", "sleep" or "done"
    attempt,         \* connect: the loop variable
    events,          \* history: the outcome of each attempt of connect, and its sleeps
    slept,           \* history: the time connect spent in time.sleep
    connected,       \* Neo4jConnection: self._connected
    connect_result,  \* what connect returned or raised (nothing yet: None)
    disk,            \* the files under the module path: path -> content hash
    ledger,          \* StateTracker: the rows of file_state, path -> hash
    tracker_pc,      \* process_changes: "idle", "process" or "returned"
    detected,        \* history: the last detect_changes call and what it returned
    todo,            \* process_changes: the files still to process
    processed,       \* process_changes: processed
    log,             \* history: what process_changes did, in order
    edits,           \* history: changes made to the files so far
    schema,          \* the constraints and indexes of the store, by name
    schema_pc,       \* initialize_schema: "idle" or "run"
    statement,       \* initialize_schema: index of the next statement
    schema_results,  \* initialize_schema: results
    attempted,       \* history: the statements the running call executed, in order
    schema_before,   \* history: the schema the running call found
    schema_failures, \* history: statements that failed so far
    schema_history,  \* history: what each initialize_schema call returned
    env_batch_size,  \* index command: BATCH_SIZE of the environment
    option,          \* index command: --batch-size (not given: <<>>)
    startup_pc,      \* index command: "start", "settings", "overridden", "indexer",
                     \* "done" or "fatal"
    settings_batch_size, \* Settings.batch_size
    indexer_batch_size,  \* OdooIndexer.batch_size of the indexer the command creates
    handed,          \* history: the batch_size of each process_in_batches call and
                     \* the items it handed to its operation
    field_value,     \* the value of a property of a field dictionary
    prepared_value,  \* the value create_fields_batch hands to the store for it
    read_value,      \* json.loads of the stored value
    serializer_pc,   \* "field", "prepared" or "read"
    addons_dir,      \* cli index: the directories of ADDONS_PATH as iterdir yields them
    graph,           \* the store behind Neo4jClient: Module names and DEPENDS_ON pairs
    module_dir,      \* position of the loop over the directories
    cli_pc,          \* "idle", "loop", "done" or "error"
    indexed_modules, \* the counter of the command
    passes,          \* how many times the command was started
    driver,          \* Neo4jConnection.driver over calls: "None" or "driver"
    _connected,      \* Neo4jConnection._connected over calls
    returned,        \* what the most recent connect call did: "True", "False",
                     \* "raised", or "None" before the first
    closed,          \* close was called since the most recent connect call
    queries          \* history: the calls on the connection

\* The OdooIndexer, its store and its history.
indexer ==
    <<tree, batch_size, store, pc, clear_existing, incremental, existing_hashes,
      next_module, data, collection, offset, totals, stats, calls, results,
      written, failures, history>>

\* The components index_all does not touch.
\* A Neo4jConnection and its call of connect.
connection ==
    <<max_retries, retry_delay, connect_pc, attempt, events, slept, connected,
      connect_result>>

\* The ModelIndexer.
extractor == <<class_node, model>>

\* A StateTracker, its IncrementalUpdater and the files they watch.
tracker == <<disk, ledger, tracker_pc, detected, todo, processed, log, edits>>

\* The schema of the store and the initialize_schema calls on it.
initializer ==
    <<schema, schema_pc, statement, schema_results, attempted, schema_before,
      schema_failures, schema_history>>

\* The index command up to its load.
startup ==
    <<env_batch_size, option, startup_pc, settings_batch_size, indexer_batch_size, handed>>

serializer == <<field_value, prepared_value, read_value, serializer_pc>>

client == <<addons_dir, graph, module_dir, cli_pc, indexed_modules, passes>>

lifecycle == <<driver, _connected, returned, closed, queries>>

\* The index command and the components after it.
later == <<startup, serializer, client, lifecycle>>

\* The indexer and the components up to the schema initialisation.
earlier == <<indexer, extractor, connection, tracker, initializer>>

\* Everything but the index command.
not_startup == <<earlier, serializer, client, lifecycle>>

\* Everything but the serialization of a property.
not_serializer == <<earlier, startup, client, lifecycle>>

\* Everything but the per-record index command.
not_client == <<earlier, startup, serializer, lifecycle>>

\* Everything but the calls on a connection.
not_lifecycle == <<earlier, startup, serializer, client>>

standalone == <<extractor, connection, tracker, initializer, later>>

vars == <<indexer, standalone>>

\* No record written yet for any node key.
NothingWritten ==
    [Module |-> [k \in {} |-> None], Model |-> [k \in {} |-> None],
     Field |-> [k \in {} |-> None]]

\* The node label a collection of node records is written to.
LabelOf(c) ==
    CASE c = "modules" -> "Module" [] c = "models" -> "Model" [] c = "fields" -> "Field"

\* The key a node record is merged on.
KeyOf(c, rec) ==
    IF c = "fields" THEN FieldKey(rec.name, rec.model_name) ELSE rec.name

\* written after the records of a batch were written, in order.
RECURSIVE Record(_, _, _)
Record(w, c, batch) ==
    IF batch = <<>> THEN w
    ELSE Record([w EXCEPT ![LabelOf(c)] = [k \in {KeyOf(c, Head(batch))} |-> Head(batch)] @@ @],
                c, Tail(batch))

InitialStats ==
    [modules_found |-> 0, modules_indexed |-> 0, models_found |-> 0, models_indexed |-> 0,
     fields_found |-> 0, fields_indexed |-> 0, relationships_created |-> 0, errors |-> 0]

\* A class statement as _extract_model reads it: the class name, and the
\* values assigned to _name and _inherit.  A value is [kind, str, list]: a
\* string literal ("str"), a list of string literals ("list"), a dictionary
\* ("dict"), an expression _extract_value returns None for ("expr"), or no
\* assignment at all ("absent").
Value(kind, str, list) == [kind |-> kind, str |-> str, list |-> list]

ClassNode(name, _name, _inherit) == [name |-> name, _name |-> _name, _inherit |-> _inherit]

\* No class handed to the extractor.
NoClass == ClassNode("", Value("absent", "", <<>>), Value("absent", "", <<>>))

\* The OdooIndexer as constructed on the tree t with the batch size b.
Constructed(t, b) ==
    /\ tree = t
    /\ batch_size = b
    /\ store = EmptyStore
    /\ pc = "idle"
    /\ clear_existing = FALSE
    /\ incremental = FALSE
    /\ existing_hashes = _get_existing_file_hashes
    /\ next_module = 1
    /\ data = EmptyData
    /\ collection = 1
    /\ offset = 0
    /\ totals = [created |-> 0, errors |-> 0]
    /\ stats = InitialStats
    /\ calls = <<>>
    /\ results = <<>>
    /\ written = NothingWritten
    /\ failures = 0
    /\ history = <<>>

\* Neo4jConnection as constructed with the given max_retries and retry_delay,
\* connect being called on it.
Neo4jConnection(retries, delay) ==
    /\ max_retries = retries
    /\ retry_delay = delay
    /\ connect_pc = "attempt"
    /\ attempt = 0
    /\ events = <<>>
    /\ slept = 0
    /\ connected = FALSE
    /\ connect_result = None

\* The connection the indexer is given is open: connect returned True at its
\* first attempt.
Connected ==
    /\ max_retries = 3
    /\ retry_delay = 1
    /\ connect_pc = "done"
    /\ attempt = 0
    /\ events = <<"ok">>
    /\ slept = 0
    /\ connected = TRUE
    /\ connect_result = "True"

\* No files.
NoFiles == [p \in {} |-> None]

\* What detect_changes returns.
Changes(new, modified, deleted) == [new |-> new, modified |-> modified, deleted |-> deleted]

\* A detect_changes call, for the history: the ledger and the files it found,
\* the paths it was given and what it returned.
Detected(rows, files, file_paths, changes) ==
    [ledger |-> rows, disk |-> files, file_paths |-> file_paths, changes |-> changes]

\* A StateTracker on a new state database, watching the given files.
StateTracker(files) ==
    /\ disk = files
    /\ ledger = NoFiles
    /\ tracker_pc = "idle"
    /\ detected = Detected(NoFiles, NoFiles, <<>>, Changes(<<>>, <<>>, {}))
    /\ todo = <<>>
    /\ processed = 0
    /\ log = <<>>
    /\ edits = 0

\* results of initialize_schema.
SchemaResults(constraints_created, indexes_created, errors) ==
    [constraints_created |-> constraints_created, indexes_created |-> indexes_created,
     errors |-> errors]

\* A store without constraints and indexes, initialize_schema not called yet.
NoSchema ==
    /\ schema = {}
    /\ schema_pc = "idle"
    /\ statement = 1
    /\ schema_results = SchemaResults(0, 0, <<>>)
    /\ attempted = <<>>
    /\ schema_before = {}
    /\ schema_failures = 0
    /\ schema_history = <<>>

\* The index command as started with BATCH_SIZE = env in the environment and
\* the --batch-size option opt.
Started(env, opt) ==
    /\ env_batch_size = env
    /\ option = opt
    /\ startup_pc = "start"
    /\ settings_batch_size = 0
    /\ indexer_batch_size = 0
    /\ handed = <<>>

\* The components modelled after the schema initialisation, at rest.
\* A Python value: its type, its text when it is a scalar and its elements
\* when it is a collection.
PyValue(type, atom, items) == [type |-> type, atom |-> atom, items |-> items]

PyNone == PyValue("NoneType", "None", <<>>)

\* No property is being written.
NoProperty ==
    /\ field_value = PyNone
    /\ prepared_value = PyNone
    /\ read_value = PyNone
    /\ serializer_pc = "read"

\* The store behind Neo4jClient without a node.
EmptyGraph == [Module |-> {}, DEPENDS_ON |-> {}]

\* The per-record index command was not started; dirs is what ADDONS_PATH
\* holds.
NotIndexed(dirs) ==
    /\ addons_dir = dirs
    /\ graph = EmptyGraph
    /\ module_dir = 1
    /\ cli_pc = "idle"
    /\ indexed_modules = 0
    /\ passes = 0

\* Neo4jConnection.__init__: no driver, not connected.
NewConnection ==
    /\ driver = "None"
    /\ _connected = FALSE
    /\ returned = "None"
    /\ closed = FALSE
    /\ queries = <<>>

LaterIdle ==
    /\ Started(50, <<>>)
    /\ NoProperty
    /\ NotIndexed(<<>>)
    /\ NewConnection

Init ==
    /\ \E t \in Trees, b \in 1..MaxBatchSize : Constructed(t, b)
    /\ class_node = NoClass
    /\ model = <<>>
    /\ Connected
    /\ StateTracker(NoFiles)
    /\ NoSchema
    /\ LaterIdle

\* get_database_stats: the census, the number of nodes per label and of
\* relationships per type.
get_database_stats(st) ==
    [k \in NodeLabel \cup RelationType |-> BagCardinality(st[k])]

\* Index in LoadOrder of the first non-empty collection from index from on
\* (process_in_batches returns at once on an empty one); Len(LoadOrder) + 1
\* when there is none.
RECURSIVE FirstCollection(_, _)
FirstCollection(d, from) ==
    IF from > Len(LoadOrder) THEN from
    ELSE IF d[LoadOrder[from]] # <<>> THEN from
    ELSE FirstCollection(d, from + 1)

\* A store call of index_all, for the history.
Call(op, at, size, ok) == [op |-> op, offset |-> at, size |-> size, ok |-> ok]

\* The outcome of an index_all call, for the history.
Outcome(outcome, ce, inc, run_calls, st, run_stats) ==
    [outcome |-> outcome, clear_existing |-> ce, incremental |-> inc, calls |-> run_calls,
     failed |-> \E i \in 1..Len(run_calls) : ~ run_calls[i].ok,
     db_stats |-> get_database_stats(st), store |-> st, stats |-> run_stats]

\* FirstCalls with the schema ensured before the store is cleared.
FirstCallsSchemaFirst(ce) ==
    <<Call("initialize_schema", 0, 0, TRUE)>>
        \o (IF ce THEN <<Call("clear_database", 0, 0, TRUE)>> ELSE <<>>)

\* The store calls of steps 1 and 2 of index_all: clear_database when
\* clear_existing is set, then initialize_schema.
FirstCalls(ce) ==
    (IF ce THEN <<Call("clear_database", 0, 0, TRUE)>> ELSE <<>>)
        \o <<Call("initialize_schema", 0, 0, TRUE)>>

\* index_all up to the extraction loop: clear_database when asked to,
\* initialize_schema, then the head of _extract_all_data.  A clear_database
\* that fails raises out of index_all, which counts one error.
IndexAllBegin(ce, inc) ==
    /\ pc = "idle"
    /\ Len(history) < MaxRuns
    /\ \E fails \in BOOLEAN :
        /\ fails => ce /\ failures < MaxFailures
        /\ IF fails
           THEN /\ stats' = [stats EXCEPT !.errors = @ + 1]
                /\ calls' = <<Call("clear_database", 0, 0, FALSE)>>
                /\ history' = Append(history, Outcome("raised", ce, inc, calls', store, stats'))
                /\ failures' = failures + 1
                /\ results' = <<>>
                /\ data' = EmptyData
                /\ UNCHANGED <<store, pc, clear_existing, incremental, existing_hashes,
                               next_module, collection, offset, totals, written>>
           ELSE /\ store' = IF ce THEN EmptyStore ELSE store
                /\ written' = IF ce THEN NothingWritten ELSE written
                /\ calls' = FirstCalls(ce)
                /\ results' = <<>>
                /\ clear_existing' = ce
                /\ incremental' = inc
                /\ existing_hashes' = IF inc THEN _get_existing_file_hashes
                                      ELSE [p \in {} |-> None]
                /\ stats' = [stats EXCEPT !.modules_found = Len(tree)]
                /\ next_module' = 1
                /\ data' = EmptyData
                /\ collection' = 1
                /\ offset' = 0
                /\ totals' = [created |-> 0, errors |-> 0]
                /\ pc' = IF Len(tree) = 0 THEN "census" ELSE "extract"
                /\ UNCHANGED <<failures, history>>
    /\ UNCHANGED <<standalone, tree, batch_size>>

\* The tail of an iteration of the loop of _extract_all_data: module_data
\* (zero or one result) is merged into the data d and counted.
Extracted(module_data, d, last) ==
    /\ data' = d
    /\ stats' = IF module_data = <<>> THEN stats
                ELSE [stats EXCEPT
                        !.modules_indexed = @ + 1,
                        !.models_found = @ + Len(module_data[1]["models"]),
                        !.models_indexed = @ + Len(module_data[1]["models"]),
                        !.fields_found = @ + Len(module_data[1]["fields"]),
                        !.fields_indexed = @ + Len(module_data[1]["fields"])]
    /\ next_module' = next_module + 1
    /\ collection' = IF last THEN FirstCollection(d, 1) ELSE collection
    /\ pc' = IF ~ last THEN "extract"
             ELSE IF FirstCollection(d, 1) > Len(LoadOrder) THEN "census"
             ELSE "load"

\* Failed with the exception ending the loop of _extract_all_data: the
\* modules after the failing one are not processed.
FailedAbort(d, last) ==
    /\ data' = d
    /\ stats' = [stats EXCEPT !.errors = @ + 1]
    /\ next_module' = Len(tree) + 1
    /\ collection' = FirstCollection(d, 1)
    /\ pc' = IF FirstCollection(d, 1) > Len(LoadOrder) THEN "census" ELSE "load"

\* The except branch of an iteration of the loop of _extract_all_data: the
\* exception of _extract_module_data is logged and counted, the data d is
\* left as it was and the loop goes on.
Failed(d, last) ==
    /\ data' = d
    /\ stats' = [stats EXCEPT !.errors = @ + 1]
    /\ next_module' = next_module + 1
    /\ collection' = IF last THEN FirstCollection(d, 1) ELSE collection
    /\ pc' = IF ~ last THEN "extract"
             ELSE IF FirstCollection(d, 1) > Len(LoadOrder) THEN "census"
             ELSE "load"

\* data with the collections of module_data appended.
Extend(d, module_data) ==
    IF module_data = <<>> THEN d
    ELSE [c \in DOMAIN d |-> d[c] \o module_data[1][c]]

\* One iteration of the loop of _extract_all_data; after the last one
\* _load_all_data starts with the first non-empty collection.
ExtractModule ==
    /\ pc = "extract"
    /\ IF Raises(tree[next_module])
       THEN Failed(data, next_module = Len(tree))
       ELSE \E module_data \in {_extract_module_data(tree[next_module], existing_hashes)} :
                Extracted(module_data, Extend(data, module_data), next_module = Len(tree))
    /\ UNCHANGED <<standalone, tree, batch_size, store, clear_existing, incremental,
                   existing_hashes,
                   offset, totals, calls, results, written, failures, history>>

\* Accumulate with a failed chunk ending the load: nothing after it is
\* written.
AccumulateAbort(c, batch, result, last, next) ==
    /\ store' = result.store
    /\ calls' = Append(calls, Call(c, offset, Len(batch), ~ result.raised))
    /\ written' = IF c \in {"modules", "models", "fields"} /\ ~ result.raised
                  THEN Record(written, c, batch) ELSE written
    /\ IF last \/ result.raised
       THEN /\ results' = Append(results,
                  [collection |-> c, created |-> totals.created + result.created,
                   errors |-> totals.errors + result.errors])
            /\ stats' = [stats EXCEPT
                            !.relationships_created = @ + totals.created + result.created]
            /\ totals' = [created |-> 0, errors |-> 0]
            /\ offset' = 0
            /\ collection' = IF result.raised THEN Len(LoadOrder) + 1 ELSE next
            /\ pc' = IF result.raised \/ next > Len(LoadOrder) THEN "census" ELSE "load"
       ELSE /\ totals' = [created |-> totals.created + result.created,
                          errors |-> totals.errors + result.errors]
            /\ offset' = offset + batch_size
            /\ UNCHANGED <<stats, collection, pc, results>>

\* The tail of an iteration of the loop of process_in_batches on the
\* collection c: result is what the operation returned for the batch; after
\* the last chunk process_in_batches returns its totals, _load_all_data adds
\* the created total to relationships_created and goes on to the next
\* collection.
Accumulate(c, batch, result, last, next) ==
    /\ store' = result.store
    /\ calls' = Append(calls, Call(c, offset, Len(batch), ~ result.raised))
    /\ written' = IF c \in {"modules", "models", "fields"} /\ ~ result.raised
                  THEN Record(written, c, batch) ELSE written
    /\ IF last
       THEN /\ results' = Append(results,
                  [collection |-> c, created |-> totals.created + result.created,
                   errors |-> totals.errors + result.errors])
            /\ stats' = [stats EXCEPT
                            !.relationships_created = @ + totals.created + result.created]
            /\ totals' = [created |-> 0, errors |-> 0]
            /\ offset' = 0
            /\ collection' = next
            /\ pc' = IF next > Len(LoadOrder) THEN "census" ELSE "load"
       ELSE /\ totals' = [created |-> totals.created + result.created,
                          errors |-> totals.errors + result.errors]
            /\ offset' = offset + batch_size
            /\ UNCHANGED <<stats, collection, pc, results>>

\* One iteration of the loop of process_in_batches on the collection c: the
\* chunk items[i:i + batch_size] is handed to the operation.
LoadChunk(c) ==
    /\ pc = "load"
    /\ LoadOrder[collection] = c
    /\ \E fails \in BOOLEAN :
        /\ fails => failures < MaxFailures
        /\ failures' = IF fails THEN failures + 1 ELSE failures
        /\ \E batch \in {Slice(data[c], offset, batch_size)} :
            \E result \in {operation_func(c, store, batch, fails)} :
                Accumulate(c, batch, result,
                           offset + batch_size >= Len(data[c]),
                           FirstCollection(data, collection + 1))
    /\ UNCHANGED <<standalone, tree, batch_size, clear_existing, incremental,
                   existing_hashes, next_module,
                   data, history>>

LoadModules == LoadChunk("modules")
LoadModuleDependencies == LoadChunk("module_dependencies")
LoadModels == LoadChunk("models")
LoadModelModuleRels == LoadChunk("model_module_rels")
LoadModelInheritance == LoadChunk("model_inheritance")
LoadModelDelegation == LoadChunk("model_delegation")
LoadFields == LoadChunk("fields")
LoadFieldModelRels == LoadChunk("field_model_rels")
LoadFieldReferences == LoadChunk("field_references")

\* The tail of index_all: the census, and the statistics are returned.
IndexAllEnd ==
    /\ pc = "census"
    /\ history' = Append(history, Outcome("returned", clear_existing, incremental, calls, store, stats))
    /\ pc' = "idle"
    /\ UNCHANGED <<standalone, tree, batch_size, store, clear_existing, incremental,
                   existing_hashes, next_module,
                   data, collection, offset, totals, stats, calls, results, written,
                   failures>>

Next ==
    \/ \E ce \in BOOLEAN, inc \in BOOLEAN : IndexAllBegin(ce, inc)
    \/ ExtractModule
    \/ LoadModules
    \/ LoadModuleDependencies
    \/ LoadModels
    \/ LoadModelModuleRels
    \/ LoadModelInheritance
    \/ LoadModelDelegation
    \/ LoadFields
    \/ LoadFieldModelRels
    \/ LoadFieldReferences
    \/ IndexAllEnd

Spec == Init /\ [][Next]_vars

----------------------------------------------------------------------------
(* The standalone extractor (src/extractor/index_models.py): ModelIndexer  *)
(* classifies every model class it finds.                                  *)

\* Longest _inherit list of the class statements.
MaxInherit == 2

\* The strings of the class statements; "" is the empty string literal.
Strings == ModelNames \cup {"mail.thread", ""}

\* Lists of at most n strings.
RECURSIVE Lists(_)
Lists(n) ==
    IF n = 0 THEN {<<>>}
    ELSE Lists(n - 1) \cup {Append(l, e) : l \in Lists(n - 1), e \in Strings}

\* The class statements: _name is a string literal or not assigned, _inherit
\* any of the kinds.
ClassNodes ==
    {ClassNode("C", n, i) :
        n \in {Value("absent", "", <<>>)} \cup {Value("str", x, <<>>) : x \in Strings},
        i \in {Value(k, "", <<>>) : k \in {"absent", "dict", "expr"}}
              \cup {Value("str", x, <<>>) : x \in Strings}
              \cup {Value("list", "", l) : l \in Lists(MaxInherit)}}

\* attributes.get("_name", ""): _extract_attributes keeps the string.
AttributeName(value) == IF value.kind = "str" THEN value.str ELSE ""

\* attributes.get("_inherit", []) normalised to a list: _extract_value drops
\* the falsy elements of a list, a string becomes a list of one, anything
\* else the empty list.
AttributeInherit(value) ==
    CASE value.kind = "str" -> <<value.str>>
      [] value.kind = "list" -> SelectSeq(value.list, LAMBDA e : e # "")
      [] OTHER -> <<>>

\* _classify_model: has_name = bool(name), has_inherit = bool(inherit).
_classify_model(name, inherit) ==
    IF name # "" /\ inherit = <<>> THEN "parent"
    ELSE IF name = "" /\ inherit # <<>> THEN "child"
    ELSE IF name # "" /\ inherit # <<>> THEN "redefined"
    ELSE "mixin"

\* The ModelMetadata built from the normalised attributes.
ModelMetadata(node, model_name, inherit, model_type) ==
    [name |-> IF model_name # "" THEN model_name ELSE node.name,
     class_name |-> node.name,
     model_type |-> model_type,
     inherits |-> inherit,
     errors |-> (IF model_type = "parent" /\ model_name = ""
                 THEN <<"Parent model missing _name attribute">> ELSE <<>>)
                \o (IF model_type = "child" /\ inherit = <<>>
                    THEN <<"Child model missing _inherit attribute">> ELSE <<>>)]

_extract_model(node) ==
    ModelMetadata(node, AttributeName(node._name), AttributeInherit(node._inherit),
                  _classify_model(AttributeName(node._name),
                                  AttributeInherit(node._inherit)))

\* _parse_file hands a model class to _extract_model.
ExtractModel ==
    /\ model = <<>>
    /\ model' = <<_extract_model(class_node)>>
    /\ UNCHANGED <<class_node, connection, tracker, initializer, indexer, later>>

InitClassify ==
    /\ Connected
    /\ StateTracker(NoFiles)
    /\ NoSchema
    /\ Constructed(<<>>, 1)
    /\ class_node \in ClassNodes
    /\ model = <<>>
    /\ LaterIdle

NextClassify == ExtractModel

SpecClassify == InitClassify /\ [][NextClassify]_vars

----------------------------------------------------------------------------
(* The connection manager (graph/connection.py): Neo4jConnection.connect.  *)

\* Largest max_retries and retry_delay a connection is constructed with.
MaxRetries == 4
MaxDelay == 2

\* What an attempt (GraphDatabase.driver and verify_connectivity) comes to.
AttemptOutcomes == {"ok", "AuthError", "ServiceUnavailable", "Exception"}

\* Retried with every failure handled as ServiceUnavailable is.
RetriedAny(outcome) == outcome # "ok"

\* The failures connect answers with another attempt while attempts are
\* left: ServiceUnavailable only; AuthError and any other exception are
\* raised at once.
Retried(outcome) == outcome = "ServiceUnavailable"

\* One iteration of the loop of connect up to its return, raise or sleep.
Attempt(outcome) ==
    /\ connect_pc = "attempt"
    /\ attempt < max_retries
    /\ events' = Append(events, outcome)
    /\ IF outcome = "ok"
       THEN /\ connected' = TRUE
            /\ connect_result' = "True"
            /\ connect_pc' = "done"
       ELSE IF Retried(outcome) /\ attempt < max_retries - 1
       THEN /\ connect_pc' = "sleep"
            /\ UNCHANGED <<connected, connect_result>>
       ELSE /\ connect_result' = outcome
            /\ connect_pc' = "done"
            /\ UNCHANGED connected
    /\ UNCHANGED <<max_retries, retry_delay, attempt, slept, extractor, tracker, initializer, indexer, later>>

\* time.sleep(self.retry_delay) returns and the loop goes to its next
\* iteration.
Sleep ==
    /\ connect_pc = "sleep"
    /\ events' = Append(events, "sleep")
    /\ slept' = slept + retry_delay
    /\ attempt' = attempt + 1
    /\ connect_pc' = "attempt"
    /\ UNCHANGED <<max_retries, retry_delay, connected, connect_result, extractor,
                   tracker, initializer, indexer, later>>

\* The loop of connect is over without a return or a raise: return False.
LoopEnd ==
    /\ connect_pc = "attempt"
    /\ attempt >= max_retries
    /\ connect_result' = "False"
    /\ connect_pc' = "done"
    /\ UNCHANGED <<max_retries, retry_delay, attempt, events, slept, connected, extractor,
                   tracker, initializer, indexer, later>>

InitConnect ==
    /\ \E retries \in 0..MaxRetries, delay \in 0..MaxDelay : Neo4jConnection(retries, delay)
    /\ Constructed(<<>>, 1)
    /\ class_node = NoClass
    /\ model = <<>>
    /\ StateTracker(NoFiles)
    /\ NoSchema
    /\ LaterIdle

NextConnect ==
    \/ \E outcome \in AttemptOutcomes : Attempt(outcome)
    \/ Sleep
    \/ LoopEnd

\* connect runs on: a call to the driver and a sleep return.
SpecConnect == InitConnect /\ [][NextConnect]_vars /\ WF_vars(NextConnect)

----------------------------------------------------------------------------
(* Change tracking (src/transformer/incremental_updates.py): StateTracker  *)
(* and IncrementalUpdater.                                                 *)

\* Changes made to the files between calls.
MaxEdits == 2

\* Longest list of paths detect_changes is called with directly.
MaxPaths == 2

\* The paths under the module path, in the order rglob("*.py") and then
\* rglob("*.xml") yield them, and the content hashes of the files.
Paths == <<"models/a.py", "views/b.xml">>
Hashes == {"sha256:1", "sha256:2"}

\* The files a module path can hold.
Disks == UNION {[S -> Hashes] : S \in SUBSET Range(Paths)}

\* The lists of at most n of the given paths.
RECURSIVE PathLists(_, _)
PathLists(S, n) ==
    IF n = 0 THEN {<<>>}
    ELSE PathLists(S, n - 1) \cup {Append(l, p) : l \in PathLists(S, n - 1), p \in S}

\* Modified with the hash left out of the comparison.
ModifiedAlways(rows, files, file_path) == TRUE

\* The test detect_changes makes on a file that has a row: the hash of the
\* content is not the stored one.
Modified(rows, files, file_path) == files[file_path] # rows[file_path]

\* detect_changes: the given paths without a row are new, the ones whose
\* row holds another hash are modified, and the rows whose path is not among
\* the given ones are deleted.
detect_changes(rows, files, file_paths) ==
    Changes(SelectSeq(file_paths, LAMBDA f : f \notin DOMAIN rows),
            SelectSeq(file_paths, LAMBDA f : f \in DOMAIN rows /\ Modified(rows, files, f)),
            (DOMAIN rows) \ Range(file_paths))

\* update_file_state: INSERT OR REPLACE the row of the file with the hash of
\* its content.
update_file_state(rows, files, file_path) ==
    [p \in {file_path} |-> files[file_path]] @@ rows

\* remove_deleted_files: DELETE the rows of the given paths.
remove_deleted_files(rows, deleted_paths) ==
    [p \in (DOMAIN rows) \ deleted_paths |-> rows[p]]

\* An entry of the log of process_changes.
Event(op, file_path) == [op |-> op, path |-> file_path]

\* A file is written, or removed, while no process_changes call runs.
EditDisk ==
    /\ tracker_pc # "process"
    /\ edits < MaxEdits
    /\ \E files \in Disks :
        /\ files # disk
        /\ \E p \in Range(Paths) :
                \A q \in Range(Paths) \ {p} :
                    /\ q \in DOMAIN files <=> q \in DOMAIN disk
                    /\ q \in DOMAIN files => files[q] = disk[q]
        /\ disk' = files
    /\ edits' = edits + 1
    /\ tracker_pc' = "idle"
    /\ UNCHANGED <<ledger, detected, todo, processed, log, extractor, connection, initializer,
                   indexer, later>>

\* StateTracker.detect_changes, called with a list of existing files.
DetectChanges(file_paths) ==
    /\ tracker_pc # "process"
    /\ detected' = Detected(ledger, disk, file_paths, detect_changes(ledger, disk, file_paths))
    /\ log' = <<>>
    /\ tracker_pc' = "idle"
    /\ UNCHANGED <<disk, ledger, todo, processed, edits, extractor, connection, initializer,
                   indexer, later>>

\* process_changes up to its loop: the files are listed and detect_changes is
\* called with them.
ProcessChangesBegin ==
    /\ tracker_pc # "process"
    /\ \E file_paths \in {SelectSeq(Paths, LAMBDA p : p \in DOMAIN disk)} :
        \E changes \in {detect_changes(ledger, disk, file_paths)} :
            /\ detected' = Detected(ledger, disk, file_paths, changes)
            /\ todo' = changes.new \o changes.modified
    /\ processed' = 0
    /\ log' = <<>>
    /\ tracker_pc' = "process"
    /\ UNCHANGED <<disk, ledger, edits, extractor, connection, initializer,
                   indexer, later>>

\* ProcessFile with the row written before the processor is called.
ProcessFileUpdateFirst(raises) ==
    /\ tracker_pc = "process"
    /\ todo # <<>>
    /\ ledger' = update_file_state(ledger, disk, Head(todo))
    /\ IF raises
       THEN /\ log' = log \o <<Event("upsert", Head(todo)), Event("raised", Head(todo))>>
            /\ UNCHANGED processed
       ELSE /\ log' = log \o <<Event("upsert", Head(todo)), Event("returned", Head(todo))>>
            /\ processed' = processed + 1
    /\ todo' = Tail(todo)
    /\ UNCHANGED <<disk, tracker_pc, detected, edits, extractor, connection, initializer,
                   indexer, later>>

\* One iteration of the loop of process_changes: file_processor_func is
\* called with the file and, when it returns, the row of the file is written.
ProcessFile(raises) ==
    /\ tracker_pc = "process"
    /\ todo # <<>>
    /\ IF raises
       THEN /\ log' = Append(log, Event("raised", Head(todo)))
            /\ UNCHANGED <<ledger, processed>>
       ELSE /\ log' = log \o <<Event("returned", Head(todo)), Event("upsert", Head(todo))>>
            /\ ledger' = update_file_state(ledger, disk, Head(todo))
            /\ processed' = processed + 1
    /\ todo' = Tail(todo)
    /\ UNCHANGED <<disk, tracker_pc, detected, edits, extractor, connection, initializer,
                   indexer, later>>

\* The tail of process_changes: the rows of the deleted paths are removed and
\* the statistics returned.
ProcessChangesEnd ==
    /\ tracker_pc = "process"
    /\ todo = <<>>
    /\ ledger' = remove_deleted_files(ledger, detected.changes.deleted)
    /\ log' = Append(log, Event("removed", ""))
    /\ tracker_pc' = "returned"
    /\ UNCHANGED <<disk, detected, todo, processed, edits, extractor, connection, initializer,
                   indexer, later>>

InitTracker ==
    /\ \E files \in Disks : StateTracker(files)
    /\ Constructed(<<>>, 1)
    /\ class_node = NoClass
    /\ model = <<>>
    /\ Connected
    /\ NoSchema
    /\ LaterIdle

NextTracker ==
    \/ EditDisk
    \/ \E file_paths \in PathLists(DOMAIN disk, MaxPaths) : DetectChanges(file_paths)
    \/ ProcessChangesBegin
    \/ \E raises \in BOOLEAN : ProcessFile(raises)
    \/ ProcessChangesEnd

SpecTracker == InitTracker /\ [][NextTracker]_vars

----------------------------------------------------------------------------
(* Schema initialisation (graph/schema.py): initialize_schema.             *)

\* initialize_schema calls made on one store, and statements the store makes
\* fail.
MaxSchemaCalls == 3
MaxSchemaFailures == 2

\* get_constraint_queries: the constraints created, by name.
get_constraint_queries ==
    <<"module_name_unique", "model_name_unique", "field_composite_unique">>

\* get_index_queries: the indexes created, by name.
get_index_queries ==
    <<"module_category_idx", "module_installable_idx", "module_application_idx",
      "model_module_idx", "field_type_idx", "field_model_name_idx", "field_comodel_idx",
      "field_required_idx">>

\* The statements of initialize_schema in the order it executes them.
Statements == get_constraint_queries \o get_index_queries

\* Executed with a failed statement ending the call.
ExecutedAbort(name, ok) ==
    /\ attempted' = Append(attempted, [name |-> name, ok |-> ok])
    /\ schema' = IF ok THEN schema \cup {name} ELSE schema
    /\ schema_results' =
            IF ~ ok THEN schema_results
            ELSE IF statement <= Len(get_constraint_queries)
            THEN [schema_results EXCEPT !.constraints_created = @ + 1]
            ELSE [schema_results EXCEPT !.indexes_created = @ + 1]
    /\ statement' = IF ok THEN statement + 1 ELSE Len(Statements) + 1

\* The body of the two loops of initialize_schema for one statement:
\* CREATE ... IF NOT EXISTS leaves the schema with the constraint or index
\* and is counted; a statement that raised is added to errors.
Executed(name, ok) ==
    /\ attempted' = Append(attempted, [name |-> name, ok |-> ok])
    /\ schema' = IF ok THEN schema \cup {name} ELSE schema
    /\ schema_results' =
            IF ~ ok THEN [schema_results EXCEPT !.errors = Append(@, name)]
            ELSE IF statement <= Len(get_constraint_queries)
            THEN [schema_results EXCEPT !.constraints_created = @ + 1]
            ELSE [schema_results EXCEPT !.indexes_created = @ + 1]
    /\ statement' = statement + 1

\* initialize_schema is called.
InitializeSchemaBegin ==
    /\ schema_pc = "idle"
    /\ Len(schema_history) < MaxSchemaCalls
    /\ schema_pc' = "run"
    /\ statement' = 1
    /\ schema_results' = SchemaResults(0, 0, <<>>)
    /\ attempted' = <<>>
    /\ schema_before' = schema
    /\ UNCHANGED <<schema, schema_failures, schema_history, extractor, connection, tracker,
                   indexer, later>>

\* One iteration of the loops of initialize_schema: execute_write of the
\* statement returns, or raises.
ExecuteStatement(ok) ==
    /\ schema_pc = "run"
    /\ statement <= Len(Statements)
    /\ ~ ok => schema_failures < MaxSchemaFailures
    /\ schema_failures' = IF ok THEN schema_failures ELSE schema_failures + 1
    /\ Executed(Statements[statement], ok)
    /\ UNCHANGED <<schema_pc, schema_before, schema_history, extractor, connection, tracker,
                   indexer, later>>

\* initialize_schema returns results.
InitializeSchemaEnd ==
    /\ schema_pc = "run"
    /\ statement > Len(Statements)
    /\ schema_history' = Append(schema_history,
            [before |-> schema_before, attempted |-> attempted, results |-> schema_results])
    /\ schema_pc' = "idle"
    /\ UNCHANGED <<schema, statement, schema_results, attempted, schema_before,
                   schema_failures, extractor, connection, tracker, indexer, later>>

InitSchema ==
    /\ NoSchema
    /\ LaterIdle
    /\ Constructed(<<>>, 1)
    /\ class_node = NoClass
    /\ model = <<>>
    /\ Connected
    /\ StateTracker(NoFiles)

NextSchema ==
    \/ InitializeSchemaBegin
    \/ \E ok \in BOOLEAN : ExecuteStatement(ok)
    \/ InitializeSchemaEnd

SpecSchema == InitSchema /\ [][NextSchema]_vars

----------------------------------------------------------------------------
(* Start-up of the index command (main.py, config/settings.py,             *)
(* OdooIndexer.__init__) up to process_in_batches.                         *)

\* Largest batch size given in the environment or on the command line (the
\* smallest is its negative), and longest list handed to process_in_batches.
MaxGiven == 3
MaxItems == 3

\* An optional integer is true when it is given and not zero.
Truthy(opt) == opt # <<>> /\ opt[1] # 0

\* x or y, x being an optional integer.
Or(opt, y) == IF Truthy(opt) THEN opt[1] ELSE y

\* The items the loop of process_in_batches hands to the operation, out of
\* n: range(0, n, batch_size) is empty when batch_size is negative.
Handed(n, size) == IF size > 0 THEN n ELSE 0

\* get_settings: Settings() reads BATCH_SIZE and _validate raises ValueError
\* when it is not positive.
GetSettings ==
    /\ startup_pc = "start"
    /\ IF env_batch_size <= 0
       THEN /\ startup_pc' = "fatal"
            /\ UNCHANGED settings_batch_size
       ELSE /\ startup_pc' = "settings"
            /\ settings_batch_size' = env_batch_size
    /\ UNCHANGED <<env_batch_size, option, indexer_batch_size, handed, not_startup>>

\* index: "if batch_size: settings.batch_size = batch_size".
Override ==
    /\ startup_pc = "settings"
    /\ settings_batch_size' = Or(option, settings_batch_size)
    /\ startup_pc' = "overridden"
    /\ UNCHANGED <<env_batch_size, option, indexer_batch_size, handed, not_startup>>

\* index creates the indexer with batch_size = settings.batch_size, and
\* OdooIndexer.__init__ keeps "batch_size or self.settings.batch_size".
CreateIndexer ==
    /\ startup_pc = "overridden"
    /\ indexer_batch_size' = Or(<<settings_batch_size>>, settings_batch_size)
    /\ startup_pc' = "indexer"
    /\ UNCHANGED <<env_batch_size, option, settings_batch_size, handed, not_startup>>

\* OdooIndexer is created by a caller other than the command, with the
\* option as its batch_size argument.
Construct ==
    /\ startup_pc = "settings"
    /\ indexer_batch_size' = Or(option, settings_batch_size)
    /\ startup_pc' = "indexer"
    /\ UNCHANGED <<env_batch_size, option, settings_batch_size, handed, not_startup>>

\* _load_all_data calls process_in_batches with self.batch_size on a
\* collection of n items.
ProcessInBatches(n) ==
    /\ startup_pc = "indexer"
    /\ handed' = Append(handed, [batch_size |-> indexer_batch_size,
                                 items |-> n,
                                 handed |-> Handed(n, indexer_batch_size)])
    /\ startup_pc' = "done"
    /\ UNCHANGED <<env_batch_size, option, settings_batch_size, indexer_batch_size,
                   not_startup>>

InitStartup ==
    /\ \E env \in (0 - MaxGiven)..MaxGiven :
        \E opt \in {<<>>} \cup {<<n>> : n \in (0 - MaxGiven)..MaxGiven} : Started(env, opt)
    /\ NoProperty
    /\ NotIndexed(<<>>)
    /\ NewConnection
    /\ Constructed(<<>>, 1)
    /\ class_node = NoClass
    /\ model = <<>>
    /\ Connected
    /\ StateTracker(NoFiles)
    /\ NoSchema

NextStartup ==
    \/ GetSettings
    \/ Override
    \/ CreateIndexer
    \/ Construct
    \/ \E n \in 1..MaxItems : ProcessInBatches(n)

SpecStartup == InitStartup /\ [][NextStartup]_vars

----------------------------------------------------------------------------
(* The serialization of field properties (_serialize_for_neo4j), and the   *)
(* reading back of a stored property.  A Python value is                   *)
(* [type, atom, items]; the entries of a dict are values of type "item"    *)
(* with the key as atom and the value as only element.  A JSON text is the *)
(* string [type |-> "str", atom |-> "json", items |-> <<j>>], j being its  *)
(* JSON value (null, true, false, number, string, array, object, member);  *)
(* the result of str() on a value v that is not a string is                *)
(* [type |-> "str", atom |-> "repr", items |-> <<v>>].                     *)

\* Most options of a selection and most entries of a dict.
MaxOptions == 2

PyBool(b) == PyValue("bool", b, <<>>)
PyInt(n) == PyValue("int", n, <<>>)
PyStr(s) == PyValue("str", s, <<>>)
PyList(items) == PyValue("list", "", items)
PyTuple(items) == PyValue("tuple", "", items)
PyDict(items) == PyValue("dict", "", items)
PyItem(key, value) == PyValue("item", key, <<value>>)

\* JSONEncoder: lists and tuples are written as arrays, dicts as objects,
\* strings, numbers, booleans and None as their JSON literals.
RECURSIVE JSONEncode(_)
JSONEncode(value) ==
    CASE value.type = "NoneType" -> PyValue("null", "null", <<>>)
      [] value.type = "bool" -> PyValue(IF value.atom = "True" THEN "true" ELSE "false",
                                        IF value.atom = "True" THEN "true" ELSE "false", <<>>)
      [] value.type = "int" -> PyValue("number", value.atom, <<>>)
      [] value.type = "str" -> PyValue("string", value.atom, value.items)
      [] value.type \in {"list", "tuple"} ->
            PyValue("array", "", [i \in 1..Len(value.items) |-> JSONEncode(value.items[i])])
      [] value.type = "dict" ->
            PyValue("object", "", [i \in 1..Len(value.items) |-> JSONEncode(value.items[i])])
      [] value.type = "item" ->
            PyValue("member", value.atom, <<JSONEncode(value.items[1])>>)

\* JSONDecoder: arrays are read as lists, objects as dicts.
RECURSIVE JSONDecode(_)
JSONDecode(j) ==
    CASE j.type = "null" -> PyNone
      [] j.type = "true" -> PyBool("True")
      [] j.type = "false" -> PyBool("False")
      [] j.type = "number" -> PyInt(j.atom)
      [] j.type = "string" -> PyValue("str", j.atom, j.items)
      [] j.type = "array" ->
            PyList([i \in 1..Len(j.items) |-> JSONDecode(j.items[i])])
      [] j.type = "object" ->
            PyDict([i \in 1..Len(j.items) |-> JSONDecode(j.items[i])])
      [] j.type = "member" -> PyItem(j.atom, JSONDecode(j.items[1]))

\* json.dumps(value): the JSON text of the value.
json_dumps(value) == PyValue("str", "json", <<JSONEncode(value)>>)

\* str(value) of a value that is not a string.
str(value) == PyValue("str", "repr", <<value>>)

\* What json.loads raises on a string that is not a JSON text.
JSONDecodeError == PyValue("JSONDecodeError", "", <<>>)

\* json.loads(s): the value of a JSON text; the result of str() on a tuple
\* and a string that was stored as it is are no JSON texts.
json_loads(s) ==
    IF s.type = "str" /\ s.atom = "json" /\ s.items # <<>>
    THEN JSONDecode(s.items[1])
    ELSE JSONDecodeError

\* SerializeValue with str() in place of json.dumps.
SerializeValueStr(value) ==
    CASE value.type = "NoneType" -> PyNone
      [] value.type \in {"list", "dict"} -> str(value)
      [] value.type = "bool" -> value
      [] value.type \in {"int", "str"} -> value
      [] OTHER -> str(value)

\* _serialize_for_neo4j on a value that may be a collection.
SerializeValue(value) ==
    CASE value.type = "NoneType" -> PyNone
      [] value.type \in {"list", "dict"} -> json_dumps(value)
      [] value.type = "bool" -> value
      [] value.type \in {"int", "str"} -> value
      [] OTHER -> str(value)

\* The strings of the properties.
Texts == {PyStr(s) : s \in {"draft", "Draft", "done", "Done"}}

\* None, booleans, numbers and strings.
Scalars == {PyNone, PyBool("True"), PyBool("False"), PyInt("16"), PyInt("2")} \cup Texts

\* The option pairs of a selection, as the parser reads them: tuples
\* (value, label), the label being None when it is not a literal, and pairs
\* written as lists.
Options ==
    {PyTuple(<<PyStr("draft"), PyStr("Draft")>>),
     PyTuple(<<PyStr("done"), PyStr("Done")>>),
     PyTuple(<<PyStr("done"), PyNone>>),
     PyTuple(<<PyInt("2"), PyStr("Done")>>),
     PyList(<<PyStr("draft"), PyStr("Draft")>>)}

\* The sequences of at most n elements of S.
RECURSIVE Upto(_, _)
Upto(S, n) ==
    IF n = 0 THEN {<<>>}
    ELSE Upto(S, n - 1) \cup {Append(q, x) : q \in Upto(S, n - 1), x \in S}

\* The values of a selection that are lists of option pairs.
Selections == {PyList(q) : q \in Upto(Options, MaxOptions)}

\* Other collections among the keyword arguments of a field: digits=(16, 2),
\* depends and domain lists, a states dict.
Collections ==
    {PyTuple(<<PyInt("16"), PyInt("2")>>),
     PyList(<<PyStr("draft"), PyStr("done")>>)}
    \cup {PyDict(q) :
            q \in Upto({PyItem("draft", PyList(<<PyTuple(<<PyStr("done"), PyBool("True")>>)>>)),
                        PyItem("done", PyBool("False"))}, MaxOptions)}

PropertyValues == Scalars \cup Selections \cup Collections

\* The field dictionary holds the value v for a property.
Property(v) ==
    /\ field_value = v
    /\ prepared_value = PyNone
    /\ read_value = PyNone
    /\ serializer_pc = "field"

\* create_fields_batch: _prepare_fields_for_neo4j serializes the value and
\* the SET clause writes it.
PrepareField ==
    /\ serializer_pc = "field"
    /\ prepared_value' = SerializeValue(field_value)
    /\ serializer_pc' = "prepared"
    /\ UNCHANGED <<field_value, read_value, not_serializer>>

\* A reader deserializes the string it finds in the store.
ReadBack ==
    /\ serializer_pc = "prepared"
    /\ prepared_value.type = "str"
    /\ read_value' = json_loads(prepared_value)
    /\ serializer_pc' = "read"
    /\ UNCHANGED <<field_value, prepared_value, not_serializer>>

InitSerialize ==
    /\ \E v \in PropertyValues : Property(v)
    /\ Started(50, <<>>)
    /\ NotIndexed(<<>>)
    /\ NewConnection
    /\ Constructed(<<>>, 1)
    /\ class_node = NoClass
    /\ model = <<>>
    /\ Connected
    /\ StateTracker(NoFiles)
    /\ NoSchema

NextSerialize ==
    \/ PrepareField
    \/ ReadBack

SpecSerialize == InitSerialize /\ [][NextSerialize]_vars

----------------------------------------------------------------------------
(* The per-record index command (src/cli/commands.py) on Neo4jClient       *)
(* (src/graph/neo4j_client.py).  Every call of the client is a write of    *)
(* its own.  The module directories hold no models and no views directory. *)

\* Most runs of the command.
MaxPasses == 2

\* Most writes of one iteration of the loop: the Module node and the
\* dependencies of the longest depends list.
MaxWrites == 3

\* A directory of ADDONS_PATH: manifest tells whether it holds a manifest
\* that ManifestParser.parse reads.
ModuleDir(name, manifest, depends) ==
    [name |-> name, manifest |-> manifest, depends |-> depends]

\* crm depends on sale and base, sale on base and on a module that is not
\* in ADDONS_PATH.
Addons(m1, m2, m3) ==
    {ModuleDir("base", m1, <<>>),
     ModuleDir("sale", m2, <<"base", "web">>),
     ModuleDir("crm", m3, <<"sale", "base">>)}

\* The orders in which iterdir can yield the directories of a set.
Orders(S) ==
    {q \in [1..Cardinality(S) -> S] : \A i, j \in 1..Cardinality(S) : q[i] = q[j] => i = j}

AddonsDirs == UNION {Orders(Addons(m1, m2, m3)) : m1 \in BOOLEAN, m2 \in BOOLEAN, m3 \in BOOLEAN}

\* Neo4jClient.create_module: MERGE (m:Module {name}) SET m += properties.
create_module(g, name) == [g EXCEPT !.Module = @ \cup {name}]

\* Neo4jClient.create_module_dependency: MATCH (from) MATCH (to)
\* MERGE (from)-[:DEPENDS_ON]->(to).
create_module_dependency(g, from_module, to_module) ==
    IF from_module \in g.Module /\ to_module \in g.Module
    THEN [g EXCEPT !.DEPENDS_ON = @ \cup {<<from_module, to_module>>}]
    ELSE g

\* The first n dependencies of the manifest written for the module.
RECURSIVE CreateDependencies(_, _, _, _)
CreateDependencies(g, module_name, depends, n) ==
    IF n = 0 THEN g
    ELSE create_module_dependency(CreateDependencies(g, module_name, depends, n - 1),
                                  module_name, depends[n])

\* The command is started: the client is opened and, with --clear, the
\* database cleared; then the directories are listed.
IndexBegin(clear) ==
    /\ cli_pc \in {"idle", "done", "error"}
    /\ passes < MaxPasses
    /\ passes' = passes + 1
    /\ graph' = IF clear THEN EmptyGraph ELSE graph
    /\ module_dir' = 1
    /\ indexed_modules' = 0
    /\ cli_pc' = "loop"
    /\ UNCHANGED <<addons_dir, not_client>>

\* One iteration of the loop: a directory without a manifest the parser
\* reads is skipped; otherwise the Module node is written, then one
\* dependency after the other.  done is the number of writes that succeed:
\* the first that fails raises, and the command reports the error and ends.
IndexModuleDir(done) ==
    /\ cli_pc = "loop"
    /\ module_dir <= Len(addons_dir)
    /\ IF ~ addons_dir[module_dir].manifest
       THEN /\ done = 0
            /\ module_dir' = module_dir + 1
            /\ UNCHANGED <<graph, indexed_modules, cli_pc>>
       ELSE /\ done <= 1 + Len(addons_dir[module_dir].depends)
            /\ graph' = IF done = 0 THEN graph
                        ELSE CreateDependencies(
                                create_module(graph, addons_dir[module_dir].name),
                                addons_dir[module_dir].name,
                                addons_dir[module_dir].depends, done - 1)
            /\ indexed_modules' = IF done = 0 THEN indexed_modules ELSE indexed_modules + 1
            /\ IF done = 1 + Len(addons_dir[module_dir].depends)
               THEN module_dir' = module_dir + 1 /\ UNCHANGED cli_pc
               ELSE cli_pc' = "error" /\ UNCHANGED module_dir
    /\ UNCHANGED <<addons_dir, passes, not_client>>

\* The loop is over: the counters are printed and the client is closed.
IndexEnd ==
    /\ cli_pc = "loop"
    /\ module_dir > Len(addons_dir)
    /\ cli_pc' = "done"
    /\ UNCHANGED <<addons_dir, graph, module_dir, indexed_modules, passes, not_client>>

InitClient ==
    /\ \E dirs \in AddonsDirs : NotIndexed(dirs)
    /\ Started(50, <<>>)
    /\ NoProperty
    /\ NewConnection
    /\ Constructed(<<>>, 1)
    /\ class_node = NoClass
    /\ model = <<>>
    /\ Connected
    /\ StateTracker(NoFiles)
    /\ NoSchema

NextClient ==
    \/ \E clear \in BOOLEAN : IndexBegin(clear)
    \/ \E done \in 0..MaxWrites : IndexModuleDir(done)
    \/ IndexEnd

SpecClient == InitClient /\ [][NextClient]_vars

----------------------------------------------------------------------------
(* The calls on one Neo4jConnection (graph/connection.py): connect, close, *)
(* is_connected, execute_query and execute_write, each as a whole.         *)

\* Most calls on the connection.
MaxCalls == 4

\* How a connect call ends: an attempt succeeds; verify_connectivity of the
\* last attempt raises (AuthError, ServiceUnavailable after the retries, or
\* another exception), the driver object being created; GraphDatabase.driver
\* itself raises; or, with max_retries = 0, the loop is not entered.
ConnectOutcomes == {"True", "verify raised", "driver raised", "False"}

\* is_connected: self._connected and self.driver is not None.
is_connected == _connected /\ driver # "None"

\* connect.
Connect(outcome) ==
    /\ Len(queries) < MaxCalls
    /\ driver' = IF outcome \in {"True", "verify raised"} THEN "driver" ELSE driver
    /\ _connected' = IF outcome = "True" THEN TRUE ELSE _connected
    /\ returned' = IF outcome \in {"True", "False"} THEN outcome ELSE "raised"
    /\ closed' = FALSE
    /\ queries' = Append(queries, [op |-> "connect", connected |-> is_connected,
                                   result |-> outcome, store |-> FALSE])
    /\ UNCHANGED not_lifecycle

\* close: "if self.driver: self.driver.close(); self._connected = False".
Close ==
    /\ Len(queries) < MaxCalls
    /\ _connected' = IF driver # "None" THEN FALSE ELSE _connected
    /\ closed' = TRUE
    /\ queries' = Append(queries, [op |-> "close", connected |-> is_connected,
                                   result |-> "None", store |-> FALSE])
    /\ UNCHANGED <<driver, returned, not_lifecycle>>

\* execute_query and execute_write: RuntimeError when is_connected() is
\* false, before a session is opened; otherwise the statement is sent to the
\* store, which answers or fails.
Execute(op, answers) ==
    /\ Len(queries) < MaxCalls
    /\ queries' = Append(queries,
            [op |-> op, connected |-> is_connected,
             result |-> IF ~ is_connected THEN "RuntimeError"
                        ELSE IF answers THEN "result" ELSE "ServiceUnavailable",
             store |-> is_connected])
    /\ UNCHANGED <<driver, _connected, returned, closed, not_lifecycle>>

InitLifecycle ==
    /\ NewConnection
    /\ Started(50, <<>>)
    /\ NoProperty
    /\ NotIndexed(<<>>)
    /\ Constructed(<<>>, 1)
    /\ class_node = NoClass
    /\ model = <<>>
    /\ Connected
    /\ StateTracker(NoFiles)
    /\ NoSchema

NextLifecycle ==
    \/ \E outcome \in ConnectOutcomes : Connect(outcome)
    \/ Close
    \/ \E op \in {"execute_query", "execute_write"}, answers \in BOOLEAN :
            Execute(op, answers)

SpecLifecycle == InitLifecycle /\ [][NextLifecycle]_vars

----------------------------------------------------------------------------
(* Properties of the indexer.                                              *)

\* The classes of the tree with the directory that holds them.
TreeClasses ==
    UNION {UNION {{[dir |-> tree[m], cls |-> tree[m].files[f].classes[k]] :
                        k \in 1..Len(tree[m].files[f].classes)} :
                  f \in 1..Len(tree[m].files)} :
           m \in 1..Len(tree)}

\* The module directories whose manifest index_all reads and parses.
Indexable(dir) ==
    dir.manifest_file = "__manifest__.py" /\ dir.readable /\ dir.parses

\* Number of edges from -> to (any field tag) in a bag of edges.
EdgeCount(rels, from, to) ==
    LET S == {e \in BagToSet(rels) : e.from = from /\ e.to = to}
        RECURSIVE Sum(_)
        Sum(T) == IF T = {} THEN 0
                  ELSE LET e == CHOOSE x \in T : TRUE
                       IN CopiesIn(e, rels) + Sum(T \ {e})
    IN Sum(S)

\* C1: an index_all run without clear_existing that follows a run in which no
\* store write failed, on the unchanged tree, leaves the census (nodes per
\* label, relationships per type) as the earlier run left it.
C1_SecondRunKeepsCensus ==
    \A i \in 2..Len(history) :
        (/\ history[i - 1].outcome = "returned"
         /\ ~ history[i - 1].failed
         /\ history[i].outcome = "returned"
         /\ ~ history[i].clear_existing)
        => history[i].db_stats = history[i - 1].db_stats

C1_Witness ==
    /\ Len(history) = 2
    /\ history[1].outcome = "returned" /\ ~ history[1].failed /\ ~ history[1].clear_existing
    /\ history[2].outcome = "returned" /\ ~ history[2].failed /\ ~ history[2].clear_existing
    /\ \A k \in NodeLabel \cup RelationType : history[2].db_stats[k] > 0

\* The order of the collections as the load is specified.
ClaimedOrder ==
    <<"modules", "module_dependencies", "models", "model_module_rels",
      "model_inheritance", "model_delegation", "fields", "field_model_rels",
      "field_references">>

Position(c) == CHOOSE k \in 1..Len(ClaimedOrder) : ClaimedOrder[k] = c

\* The node collections that hold the endpoints of a relationship collection.
EndpointCollections(c) ==
    CASE c = "module_dependencies" -> {"modules"}
      [] c = "model_module_rels" -> {"models", "modules"}
      [] c = "model_inheritance" -> {"models"}
      [] c = "model_delegation" -> {"models"}
      [] c = "field_model_rels" -> {"fields", "models"}
      [] c = "field_references" -> {"fields", "models"}
      [] OTHER -> {}

\* The offsets at which the chunks of a collection start.
ChunkOffsets(items) == {o \in 0..(Len(items) - 1) : o % batch_size = 0}

\* Every chunk of the collection c was attempted among the first n calls.
Attempted(cs, c, n) ==
    \A o \in ChunkOffsets(data[c]) : \E i \in 1..n : cs[i].op = c /\ cs[i].offset = o

\* C2: when a chunk of a collection is written, every chunk of every earlier
\* collection of the order modules, module-dependencies, models, model-module
\* memberships, model-inheritance, model-delegation, fields, field-model
\* memberships, field-references has been attempted; in particular the
\* collections of both endpoint node kinds of a relationship were attempted.
C2_LoadOrder ==
    \A j \in 1..Len(calls) :
        calls[j].op \in Range(ClaimedOrder) =>
            /\ \A k \in 1..(Position(calls[j].op) - 1) :
                    Attempted(calls, ClaimedOrder[k], j - 1)
            /\ \A c \in EndpointCollections(calls[j].op) : Attempted(calls, c, j - 1)

C2_Witness ==
    /\ pc = "census"
    /\ \A c \in Range(ClaimedOrder) : data[c] # <<>>
    /\ Len(data["fields"]) > batch_size
    /\ \E j \in 1..Len(calls) : ~ calls[j].ok

\* A class the parser takes for an extension: no _name, or a _name that is
\* one of its own _inherit entries.
IsExtension(cls) == cls.name = None \/ cls.name \in Range(cls.inherit)

\* A class of the tree that defines the model record or node properties rec.
DefinedBy(x, name, module, file_path) ==
    /\ ~ IsExtension(x.cls)
    /\ x.cls.name = name
    /\ x.dir.name = module
    /\ \E f \in 1..Len(x.dir.files) : x.dir.files[f].path = file_path

AfterCleanRun ==
    /\ pc = "idle"
    /\ history # <<>>
    /\ history[Len(history)].outcome = "returned"
    /\ ~ history[Len(history)].failed

\* The classes with _name = a and _inherit = [b], a different from b, of the
\* modules index_all extracts.
Redefining(x) ==
    /\ Indexable(x.dir)
    /\ x.cls.name # None
    /\ Len(x.cls.inherit) = 1
    /\ x.cls.inherit[1] # x.cls.name

\* C4 as claimed: after a run, a class with _name = a and _inherit = [b] has
\* exactly one Model node a and exactly one INHERITS_FROM edge a -> b.
C4_NodeAndEdge ==
    AfterCleanRun =>
        \A x \in TreeClasses :
            Redefining(x) =>
                /\ NodeCount(store.Model, x.cls.name) = 1
                /\ EdgeCount(store.INHERITS_FROM, x.cls.name, x.cls.inherit[1]) = 1

\* C4 as amended: after a run in which no store write failed, a class with
\* _name = a and _inherit = [b] has exactly one Model node a, and exactly one
\* INHERITS_FROM edge a -> b when the store holds a Model node b, none
\* otherwise.
C4_NodeAndEdgeIfParent ==
    AfterCleanRun =>
        \A x \in TreeClasses :
            Redefining(x) =>
                /\ NodeCount(store.Model, x.cls.name) = 1
                /\ EdgeCount(store.INHERITS_FROM, x.cls.name, x.cls.inherit[1])
                        = IF NodeCount(store.Model, x.cls.inherit[1]) > 0 THEN 1 ELSE 0

C4_Witness ==
    /\ AfterCleanRun
    /\ \E x \in TreeClasses :
            /\ Redefining(x)
            /\ NodeCount(store.Model, x.cls.inherit[1]) = 1
            /\ EdgeCount(store.INHERITS_FROM, x.cls.name, x.cls.inherit[1]) = 1

\* C5: the type _classify_model gives a class is "parent" exactly when _name
\* is present and _inherit absent, "child" exactly when _name is absent and
\* _inherit present, "mixin" exactly when both are absent, and "redefined"
\* only when both are present and differ: a class whose _inherit is its own
\* _name is not "redefined" and gets no node under its own name.
C5_Classification ==
    model # <<>> =>
        LET name == AttributeName(class_node._name)
            inherit == AttributeInherit(class_node._inherit)
            type == model[1].model_type
        IN /\ type = "parent" <=> (name # "" /\ inherit = <<>>)
           /\ type = "child" <=> (name = "" /\ inherit # <<>>)
           /\ type = "mixin" <=> (name = "" /\ inherit = <<>>)
           /\ type = "redefined" => (name # "" /\ inherit # <<>> /\ inherit # <<name>>)

\* The run that is at its census, or that returned last, made no store call
\* that failed.
CleanLoad ==
    /\ pc \in {"census", "idle"}
    /\ calls # <<>>
    /\ \A j \in 1..Len(calls) : calls[j].ok

\* C6: the store holds at most one edge per (type, source, target) for
\* DEPENDS_ON, DEFINED_IN, INHERITS_FROM, BELONGS_TO and REFERENCES and at most
\* one DELEGATES_TO edge per (source, target, field), after any sequence of
\* relationship writes; and two DELEGATES_TO edges between one pair coexist
\* exactly when their fields differ: every delegation record written between
\* two nodes of the store has its edge.
C6_OneEdgePerKey ==
    /\ \A type \in RelationType :
            \A e \in BagToSet(store[type]) :
                IF type = "DELEGATES_TO"
                THEN CopiesIn(e, store[type]) = 1
                ELSE EdgeCount(store[type], e.from, e.to) = 1
    /\ CleanLoad =>
            \A i \in 1..Len(data["model_delegation"]) :
                LET r == data["model_delegation"][i]
                IN (NodeCount(store.Model, r.from) > 0 /\ NodeCount(store.Model, r.to) > 0)
                    => BagIn(Edge(r.from, r.to, r.field), store.DELEGATES_TO)

C6_Witness ==
    /\ CleanLoad
    /\ Len(history) = 2
    /\ ~ history[1].failed /\ ~ history[2].clear_existing /\ ~ history[2].failed
    /\ BagIn(Edge("sale.order", "res.partner", "partner_id"), store.DELEGATES_TO)
    /\ BagIn(Edge("sale.order", "res.partner", "owner_id"), store.DELEGATES_TO)
    /\ EdgeCount(store.DELEGATES_TO, "sale.order", "res.partner") = 2

\* C7: the store holds at most one Module node per name, one Model node per
\* name and one Field node per (name, model_name), after any sequence of node
\* writes.
C7_OneNodePerKey ==
    \A label \in NodeLabel :
        \A n \in BagToSet(store[label]) : NodeCount(store[label], n.key) = 1

\* Two records of the collection c carry the same key.
SameKeyTwice(c) ==
    \E i, j \in 1..Len(data[c]) :
        i < j /\ KeyOf(c, data[c][i]) = KeyOf(c, data[c][j])

C7_Witness ==
    /\ CleanLoad
    /\ batch_size = 2
    /\ \A c \in {"modules", "models", "fields"} : SameKeyTwice(c)
    /\ \A label \in NodeLabel : BagCardinality(store[label]) = 1

\* The properties the query of a label sets.
SetPropsOf(label) ==
    CASE label = "Module" -> ModuleSetProps
      [] label = "Model" -> ModelSetProps
      [] label = "Field" -> FieldSetProps

\* C8: every non-key property of every node equals the value carried by the
\* record written last with the node's key, a null value included.
C8_LastWriteWins ==
    \A label \in NodeLabel :
        \A n \in BagToSet(store[label]) :
            /\ n.key \in DOMAIN written[label]
            /\ \A p \in SetPropsOf(label) :
                    n.props[p] = _serialize_for_neo4j(written[label][n.key][p])

C8_Witness ==
    /\ CleanLoad
    /\ batch_size = 2
    /\ \E i, j \in 1..Len(data["models"]) :
            /\ i < j
            /\ data["models"][i].name = data["models"][j].name
            /\ data["models"][i].module # data["models"][j].module
            /\ \E n \in BagToSet(store.Model) :
                    /\ n.key = data["models"][j].name
                    /\ n.props.module = data["models"][j].module
    /\ \E i, j \in 1..Len(data["fields"]) :
            /\ i < j
            /\ KeyOf("fields", data["fields"][i]) = KeyOf("fields", data["fields"][j])
            /\ data["fields"][i].string # None
            /\ data["fields"][j].string = None
            /\ \E n \in BagToSet(store.Field) :
                    n.key = KeyOf("fields", data["fields"][j]) /\ n.props.string = None

\* The calls process_in_batches made on the collection c, in order.
CallsOf(c) == SelectSeq(calls, LAMBDA x : x.op = c)

\* Sum of the sizes of the failed calls among the first n calls of cs.
RECURSIVE FailedSizes(_, _)
FailedSizes(cs, n) ==
    IF n = 0 THEN 0
    ELSE FailedSizes(cs, n - 1) + (IF cs[n].ok THEN 0 ELSE cs[n].size)

\* C9: the k-th call process_in_batches makes on a collection is the k-th
\* consecutive chunk of at most batch_size items, whatever became of the
\* chunks before it; when it returns every chunk was attempted, and the errors
\* it returns are the sum of the sizes of the chunks whose write failed.
C9_EveryChunkOnce ==
    /\ \A c \in Range(LoadOrder) :
            \A k \in 1..Len(CallsOf(c)) :
                /\ CallsOf(c)[k].offset = (k - 1) * batch_size
                /\ CallsOf(c)[k].offset < Len(data[c])
                /\ CallsOf(c)[k].size =
                        IF Len(data[c]) - CallsOf(c)[k].offset < batch_size
                        THEN Len(data[c]) - CallsOf(c)[k].offset
                        ELSE batch_size
    /\ \A i \in 1..Len(results) :
            /\ Len(CallsOf(results[i].collection)) * batch_size
                    >= Len(data[results[i].collection])
            /\ results[i].errors =
                    FailedSizes(CallsOf(results[i].collection),
                                Len(CallsOf(results[i].collection)))

C9_Witness ==
    \E i \in 1..Len(results) :
        /\ results[i].errors = 2
        /\ Len(CallsOf(results[i].collection)) = 2
        /\ ~ CallsOf(results[i].collection)[1].ok
        /\ CallsOf(results[i].collection)[2].ok
        /\ CallsOf(results[i].collection)[2].size = 1

\* A write of the load phase failed among the calls cs.
LoadFailed(cs) == \E j \in 1..Len(cs) : cs[j].op \in Range(LoadOrder) /\ ~ cs[j].ok

\* C10 as claimed: a failed store write of the load phase is the last store
\* call of its run, and the run raises instead of returning statistics.
C10_LoadFailureAborts ==
    /\ \A j \in 1..Len(calls) :
            (calls[j].op \in Range(LoadOrder) /\ ~ calls[j].ok) => j = Len(calls)
    /\ \A i \in 1..Len(history) :
            LoadFailed(history[i].calls) => history[i].outcome = "raised"

\* C10 as amended: a failed store write of the load phase does not leave
\* index_all: every chunk of every collection is attempted all the same, and
\* the run returns its statistics.
C10_LoadFailureCounted ==
    /\ (pc \in {"census", "idle"} /\ LoadFailed(calls)) =>
            \A c \in Range(LoadOrder) : Attempted(calls, c, Len(calls))
    /\ \A i \in 1..Len(history) :
            LoadFailed(history[i].calls) => history[i].outcome = "returned"

C10_Witness ==
    /\ history # <<>>
    /\ history[1].outcome = "returned"
    /\ \E j, k \in 1..Len(history[1].calls) :
            /\ j < k
            /\ history[1].calls[j].op = "models" /\ ~ history[1].calls[j].ok
            /\ history[1].calls[k].op = "fields" /\ history[1].calls[k].ok

----------------------------------------------------------------------------
(* Failures of the extraction.                                             *)

\* The modules of the tree the loop of _extract_all_data has been through.
Processed == IF pc = "extract" THEN next_module - 1 ELSE Len(tree)

\* How many of the first n modules of the tree make _extract_module_data
\* raise.
RaisingCount(n) == Cardinality({j \in 1..n : Raises(tree[j])})

\* The result set of the first n modules of the tree without the ones that
\* make _extract_module_data raise.
RECURSIVE ExtractedFrom(_)
ExtractedFrom(n) ==
    IF n = 0 THEN EmptyData
    ELSE IF Raises(tree[n]) THEN ExtractedFrom(n - 1)
    ELSE Extend(ExtractedFrom(n - 1), _extract_module_data(tree[n], existing_hashes))

\* self.stats as the index_all call number i found it.
StatsBefore(i) == IF i = 1 THEN InitialStats ELSE history[i - 1].stats

\* C11: a module whose extraction raises adds exactly one to stats["errors"]
\* and no record to the result set, the loop of _extract_all_data goes through
\* every module after it (the result set is that of the tree without the
\* failing modules), and the run goes on to the load phase and returns.
C11_ExtractionFailureIsolated ==
    /\ pc # "idle" =>
            /\ data = ExtractedFrom(Processed)
            /\ stats.errors =
                    StatsBefore(Len(history) + 1).errors + RaisingCount(Processed)
    /\ \A i \in 1..Len(history) :
            \/ /\ history[i].outcome = "raised"
               /\ history[i].calls = <<Call("clear_database", 0, 0, FALSE)>>
            \/ /\ history[i].outcome = "returned"
               /\ history[i].stats.errors =
                        StatsBefore(i).errors + RaisingCount(Len(tree))
               /\ history[i].stats.modules_indexed =
                        StatsBefore(i).modules_indexed
                            + Len(ExtractedFrom(Len(tree))["modules"])
               /\ ExtractedFrom(Len(tree))["modules"] # <<>> =>
                        \E j \in 1..Len(history[i].calls) :
                            /\ history[i].calls[j].op = "modules"
                            /\ history[i].calls[j].size > 0

C11_Witness ==
    /\ Len(tree) = 2
    /\ Raises(tree[1])
    /\ Indexable(tree[2])
    /\ history # <<>>
    /\ history[1].outcome = "returned"
    /\ ~ history[1].failed
    /\ history[1].stats.errors = 1
    /\ history[1].stats.modules_indexed = 1
    /\ history[1].db_stats["Module"] = 1

\* The module has a manifest that is read and has a syntax error.
Broken(dir) == dir.manifest_file = "__manifest__.py" /\ dir.readable /\ ~ dir.parses

\* C12: an index_all run over a tree of which exactly k modules have a
\* manifest with a syntax error, and in which nothing else fails, indexes the
\* other modules and returns with k more in stats["errors"] than it started
\* with.
C12_BrokenManifestsCounted ==
    \A i \in 1..Len(history) :
        (/\ history[i].outcome = "returned"
         /\ ~ history[i].failed
         /\ RaisingCount(Len(tree)) = 0) =>
            /\ history[i].stats.modules_indexed - StatsBefore(i).modules_indexed =
                    Cardinality({j \in 1..Len(tree) : Indexable(tree[j])})
            /\ history[i].stats.errors - StatsBefore(i).errors =
                    Cardinality({j \in 1..Len(tree) : Broken(tree[j])})

\* C13: a run with incremental = TRUE that follows a run which wrote the
\* modules of the same tree (their manifest hashes with them) counts no module
\* as indexed and leaves every Module, Model and Field node as it was.
C13_IncrementalSkipsUnchanged ==
    \A i \in 2..Len(history) :
        (/\ history[i].outcome = "returned"
         /\ history[i].incremental
         /\ ~ history[i].clear_existing
         /\ history[i - 1].outcome = "returned"
         /\ ~ history[i - 1].failed) =>
            /\ history[i].stats.modules_indexed = history[i - 1].stats.modules_indexed
            /\ \A label \in NodeLabel : history[i].store[label] = history[i - 1].store[label]

----------------------------------------------------------------------------
(* The census of a full index.                                             *)

----------------------------------------------------------------------------
(* Module dependencies.                                                    *)

\* C15: after a run without a failed write over the modules crm, sale and
\* base, crm depending on sale and sale on base, in whichever order they were
\* discovered, the DEPENDS_ON edges are exactly crm -> sale and sale -> base,
\* get_module_dependencies of crm is {sale}, and the shortest dependency path
\* from crm to base is crm, sale, base (length 2).
C15_DependencyChain ==
    (tree \in ChainTrees /\ AfterCleanRun) =>
        /\ BagToSet(store.DEPENDS_ON) =
                {Edge("crm", "sale", None), Edge("sale", "base", None)}
        /\ BagCardinality(store.DEPENDS_ON) = 2
        /\ get_module_dependencies(store, "crm") = {"sale"}
        /\ get_dependency_chain(store, "crm", "base", 10) = {<<"crm", "sale", "base">>}

C15_Witness ==
    /\ tree \in ChainTrees
    /\ tree[1].name = "crm"
    /\ tree[3].name = "sale"
    /\ AfterCleanRun
    /\ Len(history) = 1
    /\ \E p \in get_dependency_chain(store, "crm", "base", 10) : Len(p) - 1 = 2

----------------------------------------------------------------------------
(* Connecting.                                                             *)

\* The attempts among the events of connect.
Attempts == SelectSeq(events, LAMBDA e : e # "sleep")

\* What holds of connect at every moment.
ConnectSafety ==
    /\ Len(Attempts) <= max_retries
    /\ \A i \in 1..(Len(Attempts) - 1) : Attempts[i] = "ServiceUnavailable"
    /\ \A i \in 1..(Len(events) - 1) : (events[i] = "sleep") # (events[i + 1] = "sleep")
    /\ events # <<>> => events[1] # "sleep"
    /\ slept = (Len(events) - Len(Attempts)) * retry_delay
    /\ (connect_pc = "done" /\ Attempts # <<>>) =>
            LET last == Attempts[Len(Attempts)]
            IN /\ events[Len(events)] = last
               /\ last = "ok" => connect_result = "True" /\ connected
               /\ last = "AuthError" => connect_result = "AuthError" /\ ~ connected
               /\ last = "ServiceUnavailable" =>
                    /\ connect_result = "ServiceUnavailable"
                    /\ Len(Attempts) = max_retries
    /\ connect_result = "True" <=> (events # <<>> /\ events[Len(events)] = "ok")
    /\ connect_result = "ServiceUnavailable" => Len(Attempts) = max_retries
    /\ connect_result = "AuthError" => events[Len(events)] = "AuthError"

\* C16: connect does not attempt again after an authentication error and
\* raises it; after ServiceUnavailable it sleeps and attempts again, max_retries
\* attempts at most, and raises ServiceUnavailable after the last; it returns
\* True at the first attempt that succeeds; and it terminates.
C16_ConnectRetries == []ConnectSafety /\ <>(connect_pc = "done")

C16_Witness ==
    /\ max_retries = 3
    /\ retry_delay = 2
    /\ connect_pc = "done"
    /\ connect_result = "ServiceUnavailable"
    /\ events = <<"ServiceUnavailable", "sleep", "ServiceUnavailable", "sleep",
                  "ServiceUnavailable">>
    /\ slept = 4

----------------------------------------------------------------------------
(* Change tracking.                                                        *)

\* C17: what detect_changes returned for the paths it was given: new,
\* modified and deleted are pairwise disjoint; new is the given paths without
\* a row, modified the given paths whose row holds another hash than the
\* file's, deleted the rows whose path was not given; and a given path whose
\* hash is the stored one is in none of the three.
C17_DetectChanges ==
    LET given == Range(detected.file_paths)
        new == Range(detected.changes.new)
        modified == Range(detected.changes.modified)
        deleted == detected.changes.deleted
        rows == detected.ledger
        files == detected.disk
    IN /\ new \cap modified = {}
       /\ new \cap deleted = {}
       /\ modified \cap deleted = {}
       /\ new = {p \in given : p \notin DOMAIN rows}
       /\ modified = {p \in given : p \in DOMAIN rows /\ files[p] # rows[p]}
       /\ deleted = {p \in DOMAIN rows : p \notin given}
       /\ \A p \in given :
            (p \in DOMAIN rows /\ files[p] = rows[p]) => p \notin new \cup modified \cup deleted

C17_Witness ==
    /\ detected.file_paths = <<"models/a.py">>
    /\ detected.ledger = [p \in {"models/a.py", "views/b.xml"} |-> "sha256:1"]
    /\ detected.disk = [p \in {"models/a.py"} |-> "sha256:2"]
    /\ detected.changes = Changes(<<>>, <<"models/a.py">>, {"views/b.xml"})

\* The files whose processor raised in the process_changes call of the log.
RaisedFiles == {log[i].path : i \in {j \in 1..Len(log) : log[j].op = "raised"}}

\* C18: process_changes writes the row of a file only right after
\* file_processor_func returned for that file; the row of a file whose
\* processor raised is as it was before the call, so the next detect_changes
\* over the same files reports the file as new or modified again; and when
\* process_changes has returned no row is left for a path it detected as
\* deleted.
C18_LedgerAfterProcessing ==
    /\ \A i \in 1..Len(log) :
            log[i].op = "upsert" =>
                i > 1 /\ log[i - 1] = Event("returned", log[i].path)
    /\ tracker_pc \in {"process", "returned"} =>
            \A p \in RaisedFiles :
                /\ p \in DOMAIN ledger <=> p \in DOMAIN detected.ledger
                /\ p \in DOMAIN ledger => ledger[p] = detected.ledger[p]
    /\ tracker_pc = "returned" =>
            /\ \A p \in RaisedFiles :
                    \E changes \in {detect_changes(ledger, disk,
                                        SelectSeq(Paths, LAMBDA q : q \in DOMAIN disk))} :
                        p \in Range(changes.new) \cup Range(changes.modified)
            /\ detected.changes.deleted \cap DOMAIN ledger = {}

C18_Witness ==
    /\ tracker_pc = "returned"
    /\ detected.changes = Changes(<<>>, <<"models/a.py">>, {"views/b.xml"})
    /\ log = <<Event("raised", "models/a.py"), Event("removed", "")>>
    /\ DOMAIN ledger = {"models/a.py"}
    /\ ledger["models/a.py"] # disk["models/a.py"]

----------------------------------------------------------------------------
(* Schema initialisation.                                                  *)

\* The names of the statements that failed among the executed ones.
RECURSIVE FailedNames(_)
FailedNames(done) ==
    IF done = <<>> THEN <<>>
    ELSE (IF Head(done).ok THEN <<>> ELSE <<Head(done).name>>) \o FailedNames(Tail(done))

----------------------------------------------------------------------------
(* The steps of index_all.                                                 *)

\* Among the store calls cs of a run called with clear_existing = ce,
\* clear_database occurs only when ce is set and then first, initialize_schema
\* comes next, and every write of the load phase comes after it.
StepsInOrder(cs, ce) ==
    /\ \A j \in 1..Len(cs) : cs[j].op = "clear_database" => ce /\ j = 1
    /\ (ce /\ cs # <<>>) => cs[1].op = "clear_database"
    /\ \A j \in 1..Len(cs) :
            cs[j].op = "initialize_schema" => j = (IF ce THEN 2 ELSE 1)
    /\ \A j \in 1..Len(cs) :
            cs[j].op \in Range(LoadOrder) =>
                \E k \in 1..(j - 1) : cs[k].op = "initialize_schema"

\* C20: index_all clears the store only when clear_existing is set, and then
\* before the schema is ensured and before any node or relationship is
\* written; the schema is ensured before the extraction, the extraction is
\* over before the first write of the load, and every collection has been
\* loaded when the census is taken.
C20_StepsOfIndexAll ==
    /\ pc # "idle" => StepsInOrder(calls, clear_existing)
    /\ \A i \in 1..Len(history) : StepsInOrder(history[i].calls, history[i].clear_existing)
    /\ pc = "extract" =>
            /\ calls # <<>>
            /\ calls[Len(calls)].op = "initialize_schema"
    /\ pc \in {"load", "census"} => next_module > Len(tree)
    /\ pc = "census" => \A c \in Range(LoadOrder) : Attempted(calls, c, Len(calls))
    /\ \A i \in 1..Len(history) :
            history[i].outcome = "returned" =>
                /\ history[i].db_stats = get_database_stats(history[i].store)
                /\ \E j \in 1..Len(history[i].calls) :
                        history[i].calls[j].op = "initialize_schema"

C20_Witness ==
    /\ Len(history) = 2
    /\ ~ history[1].clear_existing
    /\ history[1].db_stats["Model"] = 2
    /\ history[2].clear_existing
    /\ history[2].outcome = "returned"
    /\ history[2].calls[1] = Call("clear_database", 0, 0, TRUE)
    /\ history[2].calls[2].op = "initialize_schema"
    /\ history[2].calls[3].op = "modules"
    /\ history[2].db_stats["Model"] = 2

----------------------------------------------------------------------------
(* Batch size.                                                             *)

\* C21: no indexer is created with a batch size of zero or less, and
\* process_in_batches is called with a positive batch_size only, whatever
\* BATCH_SIZE, --batch-size and the constructor argument are.
C21_PositiveBatchSize ==
    /\ startup_pc \in {"indexer", "done"} => indexer_batch_size > 0
    /\ \A i \in 1..Len(handed) : handed[i].batch_size > 0

----------------------------------------------------------------------------
(* Classes without _name.                                                  *)

\* C22: parse_model_file of a file whose only class has _inherit and no
\* _name returns exactly one record, named after the first _inherit entry,
\* with the _inherit list and the fields of the class.
C22_InheritOnlyClassNamedAfterParent ==
    pc # "idle" => \A m \in 1..Processed : \A f \in 1..Len(tree[m].files) :
        LET file == tree[m].files[f]
            models == parse_model_file(file, tree[m].name)
        IN  (/\ Indexable(tree[m])
             /\ Len(file.classes) = 1
             /\ file.classes[1].name = None
             /\ file.classes[1].inherit # <<>>)
            => /\ Len(models) = 1
               /\ models[1].name = file.classes[1].inherit[1]
               /\ models[1].inherit = file.classes[1].inherit
               /\ models[1].fields = file.classes[1].fields

----------------------------------------------------------------------------
(* The created count of the node operations.                               *)

\* What the operation called in a step of the load returned as created and
\* as errors: the growth of the totals of process_in_batches.
CreatedByCall ==
    IF Len(results') > Len(results)
    THEN results'[Len(results')].created - totals.created
    ELSE totals'.created - totals.created

ErrorsByCall ==
    IF Len(results') > Len(results)
    THEN results'[Len(results')].errors - totals.errors
    ELSE totals'.errors - totals.errors

\* The records of a sequence have pairwise distinct names.
DistinctNames(batch) ==
    \A i, j \in 1..Len(batch) : batch[i].name = batch[j].name => i = j

\* C23: create_modules_batch and create_models_batch, called on a store
\* without a node of their label with k records of k distinct keys, return
\* created = k and errors = 0, and the store then holds k nodes of the label.
C23_CreatedCountsRecords ==
    [][\A c \in {"modules", "models"} :
          (/\ pc = "load"
           /\ collection <= Len(LoadOrder)
           /\ LoadOrder[collection] = c
           /\ store[LabelOf(c)] = EmptyBag
           /\ DistinctNames(Slice(data[c], offset, batch_size))
           /\ Len(calls') = Len(calls) + 1
           /\ calls'[Len(calls')].ok)
          => /\ CreatedByCall = Len(Slice(data[c], offset, batch_size))
             /\ ErrorsByCall = 0
             /\ BagCardinality(store'[LabelOf(c)])
                    = Len(Slice(data[c], offset, batch_size))]_vars

----------------------------------------------------------------------------
(* Serialization of field properties.                                      *)

\* The value with every tuple in it read as a list.
RECURSIVE AsLists(_)
AsLists(value) ==
    PyValue(IF value.type = "tuple" THEN "list" ELSE value.type, value.atom,
            [i \in 1..Len(value.items) |-> AsLists(value.items[i])])

\* A selection that is a list of option pairs, once written and read back,
\* is the list of the same pairs in the same order.
RoundTrip ==
    (field_value \in Selections /\ serializer_pc = "read")
        => /\ prepared_value.type = "str"
           /\ read_value.type = "list"
           /\ Len(read_value.items) = Len(field_value.items)
           /\ \A i \in 1..Len(field_value.items) :
                /\ Len(read_value.items[i].items) = 2
                /\ read_value.items[i].items = field_value.items[i].items
           /\ read_value = AsLists(field_value)

\* None, booleans, numbers and strings are written as they are.
ScalarsUnchanged ==
    (field_value \in Scalars /\ serializer_pc # "field") => prepared_value = field_value

\* C24 as stated: the selection round trip, the scalars written unchanged,
\* and no value but a list or a dict replaced by a string form.
C24_OnlyListsAndDictsReplaced ==
    /\ RoundTrip
    /\ ScalarsUnchanged
    /\ (serializer_pc # "field" /\ prepared_value # field_value)
            => field_value.type \in {"list", "dict"}

\* C24, amended: the selection round trip (a pair written as a tuple is read
\* back as a two-element list), the scalars written unchanged, lists and
\* dicts replaced by their JSON text, and every other value (a tuple such as
\* digits) replaced by the result of str(), which is no JSON text.
C24_SelectionRoundTrip ==
    /\ RoundTrip
    /\ ScalarsUnchanged
    /\ (serializer_pc # "field" /\ field_value.type \in {"list", "dict"})
            => /\ prepared_value = json_dumps(field_value)
               /\ json_loads(prepared_value) = AsLists(field_value)
    /\ (serializer_pc # "field" /\ field_value \notin Scalars
            /\ field_value.type \notin {"list", "dict"})
            => /\ prepared_value = str(field_value)
               /\ json_loads(prepared_value) = JSONDecodeError

C24_Witness ==
    /\ serializer_pc = "read"
    /\ field_value = PyList(<<PyTuple(<<PyStr("draft"), PyStr("Draft")>>),
                              PyTuple(<<PyStr("done"), PyStr("Done")>>)>>)
    /\ read_value = PyList(<<PyList(<<PyStr("draft"), PyStr("Draft")>>),
                             PyList(<<PyStr("done"), PyStr("Done")>>)>>)

----------------------------------------------------------------------------
(* The module of a model.                                                  *)

\* Some index_all calls have returned and no store write of any of them
\* failed.
AfterCleanRuns ==
    /\ pc = "idle"
    /\ history # <<>>
    /\ \A i \in 1..Len(history) :
            history[i].outcome = "returned" /\ ~ history[i].failed

\* C25: after index_all runs without a failed store write every Model node
\* has exactly one outgoing DEFINED_IN edge, and the edge leads to the module
\* named by the node's module property.
C25_OneDefiningModule ==
    AfterCleanRuns =>
        \A n \in BagToSet(store.Model) :
            /\ BagCardinality([e \in {x \in BagToSet(store.DEFINED_IN) : x.from = n.key}
                                  |-> store.DEFINED_IN[e]]) = 1
            /\ \A e \in BagToSet(store.DEFINED_IN) :
                    e.from = n.key => e.to = n.props.module

----------------------------------------------------------------------------
(* Relationship records with an absent endpoint.                           *)

\* The collections of relationship records.
RelationshipCollections ==
    {"module_dependencies", "model_module_rels", "model_inheritance",
     "model_delegation", "field_model_rels", "field_references"}

\* The relationship type a collection is written to.
RelationOf(c) ==
    CASE c = "module_dependencies" -> "DEPENDS_ON"
      [] c = "model_module_rels" -> "DEFINED_IN"
      [] c = "model_inheritance" -> "INHERITS_FROM"
      [] c = "model_delegation" -> "DELEGATES_TO"
      [] c = "field_model_rels" -> "BELONGS_TO"
      [] c = "field_references" -> "REFERENCES"

\* The two MATCH clauses of the query of a collection, for the record r.
EndpointsOf(c, r) ==
    CASE c = "module_dependencies" ->
            [fromLabel |-> "Module", from |-> r.from, toLabel |-> "Module", to |-> r.to]
      [] c = "model_module_rels" ->
            [fromLabel |-> "Model", from |-> r.model, toLabel |-> "Module", to |-> r.module]
      [] c \in {"model_inheritance", "model_delegation"} ->
            [fromLabel |-> "Model", from |-> r.from, toLabel |-> "Model", to |-> r.to]
      [] c = "field_model_rels" ->
            [fromLabel |-> "Field", from |-> FieldKey(r.field_name, r.model_name),
             toLabel |-> "Model", to |-> r.model_name]
      [] c = "field_references" ->
            [fromLabel |-> "Field", from |-> FieldKey(r.field_name, r.model_name),
             toLabel |-> "Model", to |-> r.comodel]

\* The store st holds no node for one of the endpoints of the record.
AbsentEndpoint(st, c, r) ==
    NodeCount(st[EndpointsOf(c, r).fromLabel], EndpointsOf(c, r).from)
        * NodeCount(st[EndpointsOf(c, r).toLabel], EndpointsOf(c, r).to) = 0

\* C26: a call of a relationship operation changes no node; a record with an
\* absent endpoint gets no edge; and a batch of such records raises nothing
\* and, unless the store fails the write, leaves the store as it was and is
\* reported with created = 0 and errors = 0.
C26_AbsentEndpointNoEdge ==
    [][\A c \in RelationshipCollections :
          (/\ pc = "load"
           /\ collection <= Len(LoadOrder)
           /\ LoadOrder[collection] = c
           /\ Len(calls') = Len(calls) + 1)
          => /\ \A label \in NodeLabel : store'[label] = store[label]
             /\ \A i \in 1..Len(Slice(data[c], offset, batch_size)) :
                    AbsentEndpoint(store, c, Slice(data[c], offset, batch_size)[i])
                    => EdgeCount(store'[RelationOf(c)],
                                 EndpointsOf(c, Slice(data[c], offset, batch_size)[i]).from,
                                 EndpointsOf(c, Slice(data[c], offset, batch_size)[i]).to) = 0
             /\ (\A i \in 1..Len(Slice(data[c], offset, batch_size)) :
                    AbsentEndpoint(store, c, Slice(data[c], offset, batch_size)[i]))
                => /\ ~ operation_func(c, store, Slice(data[c], offset, batch_size),
                                       FALSE).raised
                   /\ calls'[Len(calls')].ok
                        => /\ store' = store
                           /\ CreatedByCall = 0
                           /\ ErrorsByCall = 0]_vars

\* The last store call wrote a batch of relationship records one of which
\* has an absent endpoint.
C26_Witness ==
    /\ calls # <<>>
    /\ calls[Len(calls)].op \in RelationshipCollections
    /\ calls[Len(calls)].ok
    /\ \E i \in 1..calls[Len(calls)].size :
            AbsentEndpoint(store, calls[Len(calls)].op,
                           data[calls[Len(calls)].op][calls[Len(calls)].offset + i])

----------------------------------------------------------------------------
(* Dependencies in the per-record command.                                 *)

\* The module directories the command indexes.
IndexedDirs == {i \in 1..Len(addons_dir) : addons_dir[i].manifest}

\* C27: after one pass of the per-record command the store holds the edge
\* A -> B for every indexed module A whose manifest lists an indexed module
\* B, whatever the order of the directories.
C27_DependencyEdgesAnyOrder ==
    (cli_pc = "done" /\ passes = 1) =>
        \A a \in IndexedDirs : \A b \in IndexedDirs :
            addons_dir[b].name \in Range(addons_dir[a].depends)
                => <<addons_dir[a].name, addons_dir[b].name>> \in graph.DEPENDS_ON

----------------------------------------------------------------------------
(* The connection over calls.                                              *)

\* C28: is_connected() is true only if the most recent connect call returned
\* True and close was not called since, and execute_query and execute_write
\* raise RuntimeError without reaching the store whenever is_connected() is
\* false.
C28_ConnectedOnlyAfterConnect ==
    /\ is_connected => (returned = "True" /\ ~ closed)
    /\ \A i \in 1..Len(queries) :
            (queries[i].op \in {"execute_query", "execute_write"}
                /\ ~ queries[i].connected)
            => (queries[i].result = "RuntimeError" /\ ~ queries[i].store)

----------------------------------------------------------------------------
(* Old-style manifests.                                                    *)

\* The directories of the tree whose manifest, under either of the accepted
\* names, is read and parsed.
Parsable == {m \in 1..Len(tree) : tree[m].readable /\ tree[m].parses}

\* C29: in a run that is not incremental every discovered directory with a
\* parsable manifest, named __manifest__.py or __openerp__.py, contributes
\* one Module record to the load, and modules_indexed grows by the number of
\* these directories.
C29_OldStyleManifestsIndexed ==
    /\ (pc \in {"load", "census"} /\ ~ incremental)
            => Len(data["modules"]) = Cardinality(Parsable)
    /\ \A i \in 1..Len(history) :
            (history[i].outcome = "returned" /\ ~ history[i].incremental)
            => history[i].stats.modules_indexed - StatsBefore(i).modules_indexed
                    = Cardinality(Parsable)

----------------------------------------------------------------------------
(* Statistics of a run with a failed chunk.                                *)

\* The records of the collection c written by the first n calls of cs: the
\* sizes of its chunks whose write succeeded.
RECURSIVE WrittenSizes(_, _, _)
WrittenSizes(cs, c, n) ==
    IF n = 0 THEN 0
    ELSE WrittenSizes(cs, c, n - 1)
            + (IF cs[n].op = c /\ cs[n].ok THEN cs[n].size ELSE 0)

\* A chunk write of the load phase of the run failed.
ChunkFailed(run) ==
    \E k \in 1..Len(run.calls) :
        run.calls[k].op \in Range(LoadOrder) /\ ~ run.calls[k].ok

\* C30: the statistics of a run in which a chunk write failed report more
\* errors than before the run, and modules_indexed, models_indexed and
\* fields_indexed grow by no more than the records of their kind that were
\* written to the store.
C30_FailedChunksInStatistics ==
    \A i \in 1..Len(history) :
        (history[i].outcome = "returned" /\ ChunkFailed(history[i]))
        => /\ history[i].stats.errors > StatsBefore(i).errors
           /\ history[i].stats.modules_indexed - StatsBefore(i).modules_indexed
                <= WrittenSizes(history[i].calls, "modules", Len(history[i].calls))
           /\ history[i].stats.models_indexed - StatsBefore(i).models_indexed
                <= WrittenSizes(history[i].calls, "models", Len(history[i].calls))
           /\ history[i].stats.fields_indexed - StatsBefore(i).fields_indexed
                <= WrittenSizes(history[i].calls, "fields", Len(history[i].calls))

====
